---- MODULE Spec2Model ----
(***************************************************************************)
(* expo-persistent-notifications: the notification lifecycle on the two    *)
(* native modules.                                                         *)
(*                                                                         *)
(*   android: ExpoPersistentNotificationsModule (the JS-facing API, run on *)
(*            the module queue), LocationTrackingService (the foreground   *)
(*            service, run on the main looper), NotificationHelper         *)
(*            (buildNotification) and NotificationActionReceiver.          *)
(*   ios:     ExpoPersistentNotificationsModule (Swift) over               *)
(*            UNUserNotificationCenter.                                    *)
(*                                                                         *)
(* One behaviour runs on one platform, chosen by Init.                     *)
(***************************************************************************)
EXTENDS Integers, Sequences, FiniteSets, TLC

VARIABLES
  platform,               \* "android" | "ios"
  \* ---- android: LocationTrackingService.companion (process-wide statics)
  isRunning,
  currentNotificationId,
  \* ---- android: the system's view of the service and the main looper
  amsStarted,             \* the system holds a started service record
  mainQueue,              \* the main looper's queue: messages and callbacks
  insts,                  \* service instances (live one and destroyed ones
                          \* that pending callbacks still reference)
  cur,                    \* index of the live instance, 0 when none
  shown,                  \* the notification displayed under NOTIFICATION_ID
  \* ---- ios: module fields and UNUserNotificationCenter
  activeNotifications,
  notificationCategories,
  pendingReqs,            \* pending notification requests by identifier
  delivered,              \* delivered notifications by identifier
  \* ---- observation
  lastOp                  \* the step just taken and the events it emitted

vars == <<platform, isRunning, currentNotificationId, amsStarted, mainQueue,
          insts, cur, shown, activeNotifications,
          notificationCategories, pendingReqs, delivered, lastOp>>

androidVars == <<isRunning, currentNotificationId, amsStarted, mainQueue,
                 insts, cur, shown>>

iosVars == <<activeNotifications, notificationCategories, pendingReqs, delivered>>

(***************************************************************************)
(* Bounds of the model.                                                    *)
(*   MaxQueue      the API is called on android only while the main        *)
(*                 looper's queue holds fewer entries than this            *)
(*   MaxInstances  service instances kept at a time: the live one and the  *)
(*                 destroyed ones a pending callback still refers to       *)
(*   MaxActions    the longest list of actions passed to start             *)
(***************************************************************************)
MaxQueue == 3
MaxInstances == 2
MaxActions == 5

(***************************************************************************)
(* Program constants.                                                      *)
(***************************************************************************)
updateIntervalMs == 6000
GraceMs == 5000
DefaultArrivalMinutes == 5
MsPerMinute == 60000
MaxShownActions == 3

(***************************************************************************)
(* Values.                                                                 *)
(***************************************************************************)
Ids == {"a", "b"}
NullId == "null"
NoData == "nodata"
StopTracking == "stop-tracking"

None == <<>>
Some(x) == <<x>>
Get(o) == o[1]

Min(S) == CHOOSE x \in S : \A y \in S : x <= y
Max2(x, y) == IF x >= y THEN x ELSE y

ActionNames == <<"view-map", "stop-tracking", "a3", "a4", "a5", "a6", "a7", "a8">>

\* A well-formed NotificationAction {id, title, foreground?}.
Action(i) == [id |-> ActionNames[i], title |-> ActionNames[i], foreground |-> FALSE]

\* The list of the first n actions of ActionNames.
ActionList(n) == [i \in 1..n |-> Action(i)]

Content(title, body, data) == [title |-> title, body |-> body, data |-> data]

Options(id, content, actions, hasArrival, arrivalMinutes) ==
  [id |-> id, content |-> content, actions |-> actions,
   hasArrival |-> hasArrival, arrivalMinutes |-> arrivalMinutes]

(***************************************************************************)
(* Events sent to JavaScript (Events(...) of both modules).                *)
(***************************************************************************)
StatusEvent(running, id) ==
  [name |-> "onServiceStatusChange", isRunning |-> running, notificationId |-> id,
   actionId |-> "", data |-> NoData]

UpdateEvent(id) ==
  [name |-> "onNotificationUpdate", isRunning |-> FALSE, notificationId |-> id,
   actionId |-> "", data |-> NoData]

ActionEvent(actionId, id, data) ==
  [name |-> "onNotificationAction", isRunning |-> FALSE, notificationId |-> id,
   actionId |-> actionId, data |-> data]

\* The number of onServiceStatusChange{isRunning: running, notificationId: id}
\* events in a sequence of events.
StatusCount(events, running, id) ==
  Cardinality({i \in 1..Len(events) : events[i] = StatusEvent(running, id)})

\* The record of one step: the operation, its arguments, the events it sent
\* to JavaScript, the broadcasts it sent, and whether the call resolved.
\* handle is the object the last startBusTracking returned to its caller.
\* started, stops and stopEvents follow the calls of the API: a call
\* start(id) and the calls stop(id) that follow it with no other call
\* between (stops of them, counted up to two), and the
\* onServiceStatusChange{isRunning: false, id} events these stops sent.
Op(op, id, actionId, data, events, broadcasts, resolved) ==
  LET follows == op = "stop" /\ id = lastOp.started /\ lastOp.stops < 2
  IN [op |-> op, id |-> id, actionId |-> actionId, data |-> data, events |-> events,
      broadcasts |-> broadcasts, resolved |-> resolved, error |-> "",
      response |-> None, handle |-> lastOp.handle, arg |-> 0,
      started |-> IF (op = "start" /\ resolved) \/ follows THEN id ELSE NullId,
      stops |-> IF follows THEN lastOp.stops + 1 ELSE 0,
      stopEvents |-> IF follows
                     THEN lastOp.stopEvents + StatusCount(events, FALSE, id) ELSE 0,
      phase |-> 1 - lastOp.phase]

\* A call the module rejected with this code: nothing is emitted.
Rejected(op, id, error) ==
  [Op(op, id, "", NoData, <<>>, <<>>, FALSE) EXCEPT !.error = error]

\* A call that resolved with a value and emitted nothing.
Resolved(op, response) ==
  [Op(op, NullId, "", NoData, <<>>, <<>>, TRUE) EXCEPT !.response = Some(response)]

\* A step of the platform or of the service; arg is what the step read.
Internal(op, arg) ==
  [op |-> op, id |-> NullId, actionId |-> "", data |-> NoData, events |-> <<>>,
   broadcasts |-> <<>>, resolved |-> FALSE, error |-> "", response |-> None,
   handle |-> lastOp.handle, arg |-> arg,
   started |-> lastOp.started, stops |-> lastOp.stops,
   stopEvents |-> lastOp.stopEvents, phase |-> 1 - lastOp.phase]

(***************************************************************************)
(* NotificationHelper.buildNotification: the action buttons.               *)
(***************************************************************************)
\* Mutant of Take: nothing is dropped.
TakeAll(s, n) == s

Take(s, n) == SubSeq(s, 1, IF Len(s) < n THEN Len(s) ELSE n)

WellFormed(action) == action.id # NullId /\ action.title # NullId

RECURSIVE KeepWellFormed(_)
KeepWellFormed(s) ==
  IF s = <<>> THEN <<>>
  ELSE IF WellFormed(Head(s))
       THEN <<[id |-> Head(s).id, title |-> Head(s).title]>> \o KeepWellFormed(Tail(s))
       ELSE KeepWellFormed(Tail(s))

\* Mutant of BuildActions: the malformed entries are skipped first and the
\* first three of the rest are taken.
BuildActionsSkipFirst(actions) == Take(KeepWellFormed(actions), MaxShownActions)

BuildActions(actions) == KeepWellFormed(Take(actions, MaxShownActions))

\* The notification built from an options map: what the user sees, and the
\* extras every action button's PendingIntent carries.
\* content["title"] as? String ?: "": an absent text is the empty one.
OrEmpty(text) == IF text = NullId THEN "" ELSE text

BuildNotification(options) ==
  [id |-> options.id, title |-> OrEmpty(options.content.title),
   body |-> OrEmpty(options.content.body),
   data |-> options.content.data, actions |-> BuildActions(options.actions)]

(***************************************************************************)
(* android: the main looper.  Its queue holds, ordered by the time they    *)
(* are due and first-in first-out among equals, the messages of the system *)
(* (the delivery of a start intent to onStartCommand, the destruction of   *)
(* the service) and the callbacks posted through a Handler.  due is the    *)
(* delay left, in milliseconds.                                            *)
(*                                                                         *)
(* startService and startForegroundService return at once; the system      *)
(* creates the service (when none is alive) and calls onStartCommand       *)
(* later, on the main thread.  stopService likewise returns at once and    *)
(* onDestroy runs later.                                                   *)
(***************************************************************************)
Msg(type, due, inst, current, options, id, content, actions) ==
  [type |-> type, due |-> due, inst |-> inst, current |-> current,
   options |-> options, id |-> id, content |-> content, actions |-> actions]

StartMsg(options) == Msg("START", 0, 0, FALSE, Some(options), NullId, None, <<>>)
UpdateContentMsg(id, content) ==
  Msg("UPDATE_CONTENT", 0, 0, FALSE, None, id, Some(content), <<>>)
UpdateActionsMsg(id, actions) ==
  Msg("UPDATE_ACTIONS", 0, 0, FALSE, None, id, None, actions)
DestroyMsg == Msg("DESTROY", 0, 0, FALSE, None, NullId, None, <<>>)

\* A run of an updateRunnable object of instance inst, pending.  current
\* tells whether the Runnable is the one the instance's updateRunnable field
\* refers to: removeCallbacks(updateRunnable) removes no other.  Runnables
\* an instance no longer refers to run the same code on the same fields.
Tick(inst, current, due) == Msg("tick", due, inst, current, None, NullId, None, <<>>)

\* A run of the lambda posted at the deadline, pending.
Grace(inst, due) == Msg("grace", due, inst, FALSE, None, NullId, None, <<>>)

\* Handler.post / postDelayed, and the system's scheduling of a message:
\* after every message due no later.
Post(q, m) ==
  LET k == Cardinality({i \in 1..Len(q) : q[i].due <= m.due})
  IN SubSeq(q, 1, k) \o <<m>> \o SubSeq(q, k + 1, Len(q))

\* Context.stopService / Service.stopSelf: the system drops the service
\* record, if it holds one, and schedules onDestroy.
StopServiceQueue(q) == IF amsStarted THEN Post(q, DestroyMsg) ELSE q

(***************************************************************************)
(* LocationTrackingService: one instance's fields.  remainingMs is         *)
(* arrivalTimeMillis - System.currentTimeMillis(), kept at 0 once the      *)
(* deadline has passed.                                                    *)
(***************************************************************************)
FreshInst ==
  [alive |-> FALSE, foreground |-> FALSE, notificationOptions |-> None,
   handler |-> FALSE, updateRunnable |-> FALSE, remainingMs |-> 0]

InstIds == 1..MaxInstances

\* The instance of a grace lambda that outlives it: a destroyed service,
\* whose fields the lambda's calls no longer depend on.
Destroyed == 0

\* A destroyed instance matters only while a pending tick reads its fields:
\* the others are garbage, and a grace lambda of a destroyed instance refers
\* to Destroyed.
Referenced(g, q) == \E i \in 1..Len(q) : q[i].type = "tick" /\ q[i].inst = g
Collect(is, q, live) ==
  [g \in InstIds |-> IF g # live /\ ~Referenced(g, q) THEN FreshInst ELSE is[g]]
Relabel(q, live) ==
  [i \in 1..Len(q) |->
     IF q[i].type = "grace" /\ q[i].inst # live
     THEN [q[i] EXCEPT !.inst = Destroyed] ELSE q[i]]

Unreferenced(g) == ~insts[g].alive /\ ~Referenced(g, mainQueue)
HasFreeInst == \E g \in InstIds : Unreferenced(g)
FreeInst == Min({g \in InstIds : Unreferenced(g)})

Init ==
  /\ platform \in {"android", "ios"}
  /\ isRunning = FALSE
  /\ currentNotificationId = NullId
  /\ amsStarted = FALSE
  /\ mainQueue = <<>>
  /\ insts = [g \in InstIds |-> FreshInst]
  /\ cur = 0
  /\ shown = None
  /\ activeNotifications = [i \in Ids |-> "unset"]
  /\ notificationCategories = {}
  /\ pendingReqs = [i \in Ids |-> None]
  /\ delivered = [i \in Ids |-> None]
  /\ lastOp = [op |-> "init", id |-> NullId, actionId |-> "", data |-> NoData,
               events |-> <<>>, broadcasts |-> <<>>, resolved |-> FALSE, error |-> "",
               response |-> None, handle |-> None, arg |-> 0, started |-> NullId, stops |-> 0, stopEvents |-> 0, phase |-> 0]

(***************************************************************************)
(* android: ExpoPersistentNotificationsModule (AsyncFunctions).            *)
(***************************************************************************)
AndroidIsNotificationActive(id) == isRunning

AndroidStartPersistentNotification(options) ==
  /\ platform = "android"
  /\ Len(mainQueue) < MaxQueue
  /\ mainQueue' = Post(mainQueue, StartMsg(options))
  /\ amsStarted' = TRUE
  /\ lastOp' = Op("start", options.id, "", NoData,
                  <<StatusEvent(TRUE, options.id)>>, <<>>, TRUE)
  /\ UNCHANGED <<platform, isRunning, currentNotificationId, insts, cur, shown, iosVars>>

AndroidUpdateNotificationContent(id, content) ==
  /\ platform = "android"
  /\ Len(mainQueue) < MaxQueue
  /\ mainQueue' = Post(mainQueue, UpdateContentMsg(id, content))
  /\ amsStarted' = TRUE
  /\ lastOp' = Op("update", id, "", content.data, <<UpdateEvent(id)>>, <<>>, TRUE)
  /\ UNCHANGED <<platform, isRunning, currentNotificationId, insts, cur, shown, iosVars>>

AndroidUpdateNotificationActions(id, actions) ==
  /\ platform = "android"
  /\ Len(mainQueue) < MaxQueue
  /\ mainQueue' = Post(mainQueue, UpdateActionsMsg(id, actions))
  /\ amsStarted' = TRUE
  /\ lastOp' = Op("updateActions", id, "", NoData, <<>>, <<>>, TRUE)
  /\ UNCHANGED <<platform, isRunning, currentNotificationId, insts, cur, shown, iosVars>>

AndroidStopPersistentNotification(id) ==
  /\ platform = "android"
  /\ mainQueue' = StopServiceQueue(mainQueue)
  /\ amsStarted' = FALSE
  /\ lastOp' = Op("stop", id, "", NoData, <<StatusEvent(FALSE, id)>>, <<>>, TRUE)
  /\ UNCHANGED <<platform, isRunning, currentNotificationId, insts, cur, shown, iosVars>>

\* Mutant of OnReceive: every action stops the service.
OnReceiveStopsAlways(actionId, notificationId, data) ==
  /\ platform = "android"
  /\ lastOp' = Op("press", notificationId, actionId, data, <<>>,
                  <<ActionEvent(actionId, notificationId, data)>>, FALSE)
  /\ mainQueue' = StopServiceQueue(mainQueue)
  /\ amsStarted' = FALSE
  /\ UNCHANGED <<platform, isRunning, currentNotificationId, insts, cur, shown, iosVars>>

(***************************************************************************)
(* android: NotificationActionReceiver.onReceive, for a press of one of    *)
(* the displayed notification's buttons.  sendEventToJS broadcasts the     *)
(* action; the module registers no receiver and never sends an             *)
(* onNotificationAction event.                                             *)
(***************************************************************************)
OnReceive(actionId, notificationId, data) ==
  /\ platform = "android"
  /\ IF actionId # NullId /\ notificationId # NullId
     THEN /\ lastOp' = Op("press", notificationId, actionId, data, <<>>,
                          <<ActionEvent(actionId, notificationId, data)>>, FALSE)
          /\ IF actionId = StopTracking
             THEN /\ mainQueue' = StopServiceQueue(mainQueue)
                  /\ amsStarted' = FALSE
             ELSE UNCHANGED <<mainQueue, amsStarted>>
     ELSE /\ lastOp' = Op("press", notificationId, actionId, data, <<>>, <<>>, FALSE)
          /\ UNCHANGED <<mainQueue, amsStarted>>
  /\ UNCHANGED <<platform, isRunning, currentNotificationId, insts, cur, shown, iosVars>>

\* The buttons of the displayed notification carry, as extras of their
\* PendingIntents, the id and the content data of the options it was built
\* from.
AndroidPress ==
  /\ platform = "android"
  /\ shown # None
  /\ \E i \in 1..Len(Get(shown).actions) :
       OnReceive(Get(shown).actions[i].id, Get(shown).id, Get(shown).data)

(***************************************************************************)
(* android: LocationTrackingService.  Each action is the main looper       *)
(* running the message at the head of its queue, which is due.             *)
(***************************************************************************)
Due(type) ==
  /\ platform = "android"
  /\ mainQueue # <<>>
  /\ Head(mainQueue).type = type
  /\ Head(mainQueue).due = 0

\* Number.toInt() of the Double the bridge hands over, for a value >= 0
\* given in half minutes: the fraction is dropped.
ToInt(halfMinutes) == halfMinutes \div 2

\* arrivalMinutes * 60 on Int: the product modulo 2^32, read as a signed
\* 32-bit number.  Computed as 4 * (15 * arrivalMinutes mod 2^30), with
\* 15 * n = 16 * n - n, so that no intermediate value leaves 32 bits.
TimesSixty(arrivalMinutes) ==
  LET w == ((arrivalMinutes % 67108864) * 16 + 1073741824
              - (arrivalMinutes % 1073741824)) % 1073741824
  IN IF w >= 536870912 THEN 4 * (w - 1073741824) ELSE 4 * w

\* arrivalTimeMillis - now, at the start: (arrivalMinutes * 60 * 1000L);
\* the first product is an Int, the second a Long.
ArrivalDelayMs(arrivalMinutes) == TimesSixty(arrivalMinutes) * 1000

\* onStartCommand, ACTION = "START", lines 50-51 alone: the seconds from
\* now to arrivalTimeMillis for options["arrivalMinutes"] given in half
\* minutes.  (The Long product by 1000 is exact; the seconds are kept so
\* that the value stays representable.)
ArrivalDelaySeconds(halfMinutes) == TimesSixty(ToInt(halfMinutes))

OnStartCommandArrivalTime(halfMinutes) ==
  /\ platform = "android"
  /\ lastOp' = [Internal("arrivalTime", halfMinutes)
                  EXCEPT !.response = Some(ArrivalDelaySeconds(halfMinutes))]
  /\ UNCHANGED <<platform, androidVars, iosVars>>

\* Mutant of CeilMinutes: the minutes left are rounded down.
FloorMinutes(remainingMs) == remainingMs \div MsPerMinute

\* Math.ceil(remainingMs / 60000.0).toInt(), for remainingMs > 0.
CeilMinutes(remainingMs) == (remainingMs + MsPerMinute - 1) \div MsPerMinute

\* The texts of updateNotificationWithTime, written without their accents
\* and without the inverted exclamation mark.
TimerTitle == "Rastreando ubicacion"
TimerBody(minutes) ==
  IF minutes > 1 THEN "Proximo bus en " \o ToString(minutes) \o " minutos"
  ELSE IF minutes = 1 THEN "Proximo bus en 1 minuto"
  ELSE "El bus esta llegando!"

\* The instance that handles a message: the live one, or one the system
\* creates first (onCreate).
Target == IF cur = 0 THEN FreeInst ELSE cur
TargetInst == IF cur = 0 THEN [FreshInst EXCEPT !.alive = TRUE] ELSE insts[cur]

\* startAutoUpdate(): a new Handler and a new updateRunnable, posted at
\* once; the callbacks of the Runnable it replaces stay in the queue.
StartAutoUpdateQueue(g, q) ==
  Post([i \in 1..Len(q) |->
          IF q[i].type = "tick" /\ q[i].inst = g
          THEN [q[i] EXCEPT !.current = FALSE] ELSE q[i]],
       Tick(g, TRUE, 0))

\* startForegroundNotification(options) and startAutoUpdate(), on an instance.
StartInst(inst, options) ==
  [inst EXCEPT !.notificationOptions = Some(options),
               !.foreground = TRUE,
               !.handler = TRUE,
               !.updateRunnable = TRUE,
               !.remainingMs = ArrivalDelayMs(IF options.hasArrival
                                              THEN options.arrivalMinutes
                                              ELSE DefaultArrivalMinutes)]

\* onStartCommand, ACTION = "START": arrivalTimeMillis, then
\* startForegroundNotification(options), then startAutoUpdate().
OnStartCommandStart ==
  /\ Due("START")
  /\ cur = 0 => HasFreeInst
  /\ LET options == Get(Head(mainQueue).options)
     IN /\ insts' = [insts EXCEPT ![Target] = StartInst(TargetInst, options)]
        /\ cur' = Target
        /\ currentNotificationId' = options.id
        /\ isRunning' = TRUE
        /\ shown' = Some(BuildNotification(options))
        /\ mainQueue' = StartAutoUpdateQueue(Target, Tail(mainQueue))
        /\ lastOp' = Internal("onStart", 0)
  /\ UNCHANGED <<platform, amsStarted, iosVars>>

\* onStartCommand, ACTION = "START", when buildNotification or startForeground
\* throws: notificationOptions and currentNotificationId are set already,
\* isRunning is not; the catch calls stopSelf(), and onStartCommand goes on
\* to startAutoUpdate().  The service's destruction is scheduled from
\* another thread, before or after the first run of updateRunnable is
\* posted.
StartInstFailed(inst, options) ==
  [StartInst(inst, options) EXCEPT !.foreground = inst.foreground]

OnStartCommandStartFails ==
  /\ Due("START")
  /\ cur = 0 => HasFreeInst
  /\ LET options == Get(Head(mainQueue).options)
     IN /\ insts' = [insts EXCEPT ![Target] = StartInstFailed(TargetInst, options)]
        /\ cur' = Target
        /\ currentNotificationId' = options.id
        /\ \E destroyFirst \in BOOLEAN :
             mainQueue' = IF destroyFirst
                          THEN StartAutoUpdateQueue(Target, StopServiceQueue(Tail(mainQueue)))
                          ELSE StopServiceQueue(StartAutoUpdateQueue(Target, Tail(mainQueue)))
        /\ amsStarted' = FALSE
        /\ lastOp' = Internal("onStartFailed", 0)
  /\ UNCHANGED <<platform, isRunning, shown, iosVars>>

\* The options map updateNotificationContent / updateNotificationActions
\* start from when notificationOptions is null: mutableMapOf().
EmptyOptions == Options(NullId, Content("", "", NoData), <<>>, FALSE, 0)
OptionsOrEmpty(inst) ==
  IF inst.notificationOptions = None THEN EmptyOptions ELSE Get(inst.notificationOptions)

\* Mutant of OnStartCommandUpdateContent: a matching update also calls
\* stopAutoUpdate().
OnStartCommandUpdateContentDisarms ==
  /\ Due("UPDATE_CONTENT")
  /\ cur = 0 => HasFreeInst
  /\ LET m == Head(mainQueue)
         updatedOptions == [OptionsOrEmpty(TargetInst) EXCEPT !.content = Get(m.content)]
     IN /\ cur' = Target
        /\ IF currentNotificationId # m.id
           THEN /\ insts' = [insts EXCEPT ![Target] = TargetInst]
                /\ shown' = shown
                /\ mainQueue' = Tail(mainQueue)
           ELSE /\ insts' = [insts EXCEPT ![Target] =
                               [TargetInst EXCEPT !.notificationOptions = Some(updatedOptions),
                                                  !.handler = FALSE,
                                                  !.updateRunnable = FALSE]]
                /\ shown' = Some(BuildNotification(updatedOptions))
                /\ mainQueue' = SelectSeq(Tail(mainQueue),
                                          LAMBDA x : ~(x.type = "tick" /\ x.inst = Target))
        /\ lastOp' = Internal("onUpdateContent", 0)
  /\ UNCHANGED <<platform, isRunning, currentNotificationId, amsStarted, iosVars>>

\* onStartCommand, ACTION = "UPDATE_CONTENT": updateNotificationContent.
OnStartCommandUpdateContent ==
  /\ Due("UPDATE_CONTENT")
  /\ cur = 0 => HasFreeInst
  /\ LET m == Head(mainQueue)
         updatedOptions == [OptionsOrEmpty(TargetInst) EXCEPT !.content = Get(m.content)]
     IN /\ cur' = Target
        /\ IF currentNotificationId # m.id
           THEN /\ insts' = [insts EXCEPT ![Target] = TargetInst]
                /\ shown' = shown
           ELSE /\ insts' = [insts EXCEPT ![Target] =
                               [TargetInst EXCEPT !.notificationOptions = Some(updatedOptions)]]
                /\ shown' = Some(BuildNotification(updatedOptions))
        /\ lastOp' = Internal("onUpdateContent", 0)
  /\ mainQueue' = Tail(mainQueue)
  /\ UNCHANGED <<platform, isRunning, currentNotificationId, amsStarted, iosVars>>

\* onStartCommand, ACTION = "UPDATE_ACTIONS": updateNotificationActions.
\* The updated options are rendered and not stored.
OnStartCommandUpdateActions ==
  /\ Due("UPDATE_ACTIONS")
  /\ cur = 0 => HasFreeInst
  /\ LET m == Head(mainQueue)
         updatedOptions == [OptionsOrEmpty(TargetInst) EXCEPT !.actions = m.actions]
     IN /\ cur' = Target
        /\ insts' = [insts EXCEPT ![Target] = TargetInst]
        /\ shown' = IF currentNotificationId # m.id THEN shown
                    ELSE Some(BuildNotification(updatedOptions))
        /\ lastOp' = Internal("onUpdateActions", 0)
  /\ mainQueue' = Tail(mainQueue)
  /\ UNCHANGED <<platform, isRunning, currentNotificationId, amsStarted, iosVars>>

\* stopAutoUpdate(): updateRunnable?.let { handler?.removeCallbacks(it) }.
StopAutoUpdateQueue(g, q) ==
  LET Kept(m) == ~(m.type = "tick" /\ m.inst = g /\ m.current)
  IN IF insts[g].handler /\ insts[g].updateRunnable THEN SelectSeq(q, Kept) ELSE q
StopAutoUpdateInst(inst) == [inst EXCEPT !.handler = FALSE, !.updateRunnable = FALSE]

\* onDestroy(): stopAutoUpdate(), then the statics are reset.  The system
\* removes the notification of a foreground service with the service.
OnDestroy ==
  /\ Due("DESTROY")
  /\ cur # 0
  /\ LET inst == insts[cur]
         q == Relabel(StopAutoUpdateQueue(cur, Tail(mainQueue)), 0)
     IN /\ mainQueue' = q
        /\ insts' = Collect([insts EXCEPT ![cur] =
                               [StopAutoUpdateInst(inst) EXCEPT !.alive = FALSE,
                                                                !.foreground = FALSE]],
                            q, 0)
        /\ shown' = IF inst.foreground THEN None ELSE shown
  /\ cur' = 0
  /\ isRunning' = FALSE
  /\ currentNotificationId' = NullId
  /\ lastOp' = Internal("onDestroy", 0)
  /\ UNCHANGED <<platform, amsStarted, iosVars>>

\* onTaskRemoved(rootIntent): the user removes the app's task while the
\* service is alive; the override logs and nothing else.
OnTaskRemoved ==
  /\ platform = "android"
  /\ cur # 0
  /\ lastOp' = Internal("onTaskRemoved", 0)
  /\ UNCHANGED <<platform, isRunning, currentNotificationId, amsStarted, mainQueue,
                 insts, cur, shown, iosVars>>

\* updateNotificationWithTime(minutes): returns at once when
\* notificationOptions is null; else replaces the content by the timer's
\* title and body, stores the options and notifies.
UpdateNotificationWithTimeInst(inst, minutes) ==
  IF inst.notificationOptions = None THEN inst
  ELSE [inst EXCEPT !.notificationOptions =
          Some([Get(inst.notificationOptions) EXCEPT
                  !.content = Content(TimerTitle, TimerBody(minutes), NoData)])]
UpdateNotificationWithTimeShown(inst, minutes) ==
  IF inst.notificationOptions = None THEN shown
  ELSE Some(BuildNotification(
         Get(UpdateNotificationWithTimeInst(inst, minutes).notificationOptions)))

\* What one run of updateRunnable renders: 0 at or after the deadline, else
\* the minutes left, rounded up.
TickMinutes(remainingMs) == IF remainingMs <= 0 THEN 0 ELSE CeilMinutes(remainingMs)

\* What the run posts next through the service's handler (nothing when the
\* handler is null): the grace lambda at or after the deadline, else itself.
TickNextQueue(m, inst, q) ==
  IF ~inst.handler THEN q
  ELSE IF inst.remainingMs <= 0 THEN Post(q, Grace(m.inst, GraceMs))
  ELSE Post(q, Tick(m.inst, m.current, updateIntervalMs))

\* updateRunnable.run().
UpdateRunnableRun ==
  /\ Due("tick")
  /\ LET m == Head(mainQueue)
         inst == insts[m.inst]
         minutes == TickMinutes(inst.remainingMs)
         q == TickNextQueue(m, inst, Tail(mainQueue))
     IN /\ mainQueue' = q
        /\ insts' = Collect([insts EXCEPT ![m.inst] =
                               UpdateNotificationWithTimeInst(inst, minutes)], q, cur)
        /\ shown' = UpdateNotificationWithTimeShown(inst, minutes)
        /\ lastOp' = Internal("tick", inst.remainingMs)
  /\ UNCHANGED <<platform, isRunning, currentNotificationId, amsStarted, cur, iosVars>>

\* Mutant of UpdateRunnableRenderFails: the exception of the render leaves
\* run() before it posts anything.
UpdateRunnableRenderAborts ==
  /\ Due("tick")
  /\ LET m == Head(mainQueue)
         inst == insts[m.inst]
         minutes == TickMinutes(inst.remainingMs)
         q == Tail(mainQueue)
     IN /\ inst.notificationOptions # None
        /\ mainQueue' = q
        /\ insts' = Collect([insts EXCEPT ![m.inst] =
                               UpdateNotificationWithTimeInst(inst, minutes)], q, cur)
        /\ lastOp' = Internal("tickFailed", inst.remainingMs)
  /\ UNCHANGED <<platform, isRunning, currentNotificationId, amsStarted, cur, shown,
                 iosVars>>

\* updateRunnable.run() when buildNotification or notify throws inside
\* updateNotificationWithTime: the options are stored already, nothing is
\* displayed, the catch logs, and run() goes on to post what it posts.
UpdateRunnableRenderFails ==
  /\ Due("tick")
  /\ LET m == Head(mainQueue)
         inst == insts[m.inst]
         minutes == TickMinutes(inst.remainingMs)
         q == TickNextQueue(m, inst, Tail(mainQueue))
     IN /\ inst.notificationOptions # None
        /\ mainQueue' = q
        /\ insts' = Collect([insts EXCEPT ![m.inst] =
                               UpdateNotificationWithTimeInst(inst, minutes)], q, cur)
        /\ lastOp' = Internal("tickFailed", inst.remainingMs)
  /\ UNCHANGED <<platform, isRunning, currentNotificationId, amsStarted, cur, shown,
                 iosVars>>

\* The lambda posted at the deadline: stopAutoUpdate(); stopForegroundService().
\* On a destroyed instance stopForeground and stopSelf reach no service;
\* the statics are reset all the same.
GraceLambdaRun ==
  /\ Due("grace")
  /\ LET m == Head(mainQueue)
     IN IF m.inst = Destroyed
        THEN /\ mainQueue' = Tail(mainQueue)
             /\ UNCHANGED <<insts, shown, amsStarted>>
        ELSE /\ mainQueue' = StopServiceQueue(StopAutoUpdateQueue(m.inst, Tail(mainQueue)))
             /\ insts' = [insts EXCEPT ![m.inst] =
                            [StopAutoUpdateInst(insts[m.inst]) EXCEPT
                               !.foreground = FALSE,
                               !.notificationOptions = None]]
             /\ shown' = IF insts[m.inst].foreground THEN None ELSE shown
             /\ amsStarted' = FALSE
  /\ isRunning' = FALSE
  /\ currentNotificationId' = NullId
  /\ lastOp' = Internal("grace", 0)
  /\ UNCHANGED <<platform, cur, iosVars>>

\* Nothing is due: time passes until the head of the queue is.
Advance ==
  /\ platform = "android"
  /\ mainQueue # <<>>
  /\ Head(mainQueue).due > 0
  /\ LET d == Head(mainQueue).due
     IN /\ mainQueue' = [i \in 1..Len(mainQueue) |->
                           [mainQueue[i] EXCEPT !.due = mainQueue[i].due - d]]
        /\ insts' = [g \in InstIds |->
                       [insts[g] EXCEPT !.remainingMs = Max2(insts[g].remainingMs - d, 0)]]
        /\ lastOp' = Internal("advance", d)
  /\ UNCHANGED <<platform, isRunning, currentNotificationId, amsStarted, cur, shown, iosVars>>

(***************************************************************************)
(* ios: ExpoPersistentNotificationsModule over UNUserNotificationCenter.   *)
(***************************************************************************)
\* The identifier "category_<notificationId>".
CategoryId(notificationId) == "category_" \o notificationId
NoCategory == ""

\* setupNotificationActions: the category registered for the notification.
SetupNotificationActions(actions, notificationId) ==
  [identifier |-> CategoryId(notificationId),
   actions |-> KeepWellFormed(Take(actions, MaxShownActions))]

Request(title, body, data, category) ==
  [title |-> title, body |-> body, data |-> data, category |-> category]

IosIsNotificationActive(id) == pendingReqs[id] # None

\* startPersistentNotification: the request is added with a 0.1 s trigger;
\* the completion handler records the id, emits the status and resolves.
IosStartPersistentNotification(options) ==
  /\ platform = "ios"
  /\ LET id == options.id
         category == SetupNotificationActions(options.actions, id)
     IN IF id = NullId \/ options.content.title = NullId \/ options.content.body = NullId
        THEN \* the guard: ERR_INVALID_OPTIONS
             /\ lastOp' = Rejected("start", id, "ERR_INVALID_OPTIONS")
             /\ UNCHANGED <<notificationCategories, pendingReqs, activeNotifications>>
        ELSE /\ notificationCategories' = notificationCategories \cup {category}
             /\ pendingReqs' = [pendingReqs EXCEPT ![id] =
                  Some(Request(options.content.title, options.content.body,
                               options.content.data, category.identifier))]
             /\ activeNotifications' = [activeNotifications EXCEPT ![id] = "true"]
             /\ lastOp' = Op("start", id, "", NoData, <<StatusEvent(TRUE, id)>>, <<>>, TRUE)
  /\ UNCHANGED <<platform, delivered, androidVars>>

\* startPersistentNotification when UNUserNotificationCenter.add completes
\* with an error: the category is registered already; the completion
\* handler rejects with ERR_ADD_NOTIFICATION and does nothing else.
IosStartAddFails(options) ==
  /\ platform = "ios"
  /\ options.id # NullId
  /\ options.content.title # NullId /\ options.content.body # NullId
  /\ notificationCategories' =
       notificationCategories \cup {SetupNotificationActions(options.actions, options.id)}
  /\ lastOp' = Rejected("start", options.id, "ERR_ADD_NOTIFICATION")
  /\ UNCHANGED <<platform, pendingReqs, activeNotifications, delivered, androidVars>>

\* The trigger of a pending request fires: the notification is delivered
\* (replacing a delivered one of the same identifier) and, the trigger not
\* repeating, the request is no longer pending.
IosDeliver(id) ==
  /\ platform = "ios"
  /\ pendingReqs[id] # None
  /\ delivered' = [delivered EXCEPT ![id] = pendingReqs[id]]
  /\ pendingReqs' = [pendingReqs EXCEPT ![id] = None]
  /\ lastOp' = Internal("deliver", 0)
  /\ UNCHANGED <<platform, activeNotifications, notificationCategories, androidVars>>

\* updateNotificationContent: a new request under the same identifier, the
\* category kept when a pending request of this identifier exists.
IosUpdateNotificationContent(id, content) ==
  /\ platform = "ios"
  /\ LET category == IF pendingReqs[id] = None THEN NoCategory
                     ELSE Get(pendingReqs[id]).category
     IN pendingReqs' = [pendingReqs EXCEPT ![id] =
          Some(Request(content.title, content.body, content.data, category))]
  /\ lastOp' = Op("update", id, "", content.data, <<UpdateEvent(id)>>, <<>>, TRUE)
  /\ UNCHANGED <<platform, activeNotifications, notificationCategories, delivered,
                 androidVars>>

\* updateNotificationActions: rejected with ERR_NOTIFICATION_NOT_FOUND when
\* no pending request has this identifier.
IosUpdateNotificationActions(id, actions) ==
  /\ platform = "ios"
  /\ IF pendingReqs[id] = None
     THEN /\ lastOp' = Rejected("updateActions", id, "ERR_NOTIFICATION_NOT_FOUND")
          /\ UNCHANGED <<notificationCategories, pendingReqs>>
     ELSE LET category == SetupNotificationActions(actions, id)
          IN /\ notificationCategories' = notificationCategories \cup {category}
             /\ pendingReqs' = [pendingReqs EXCEPT ![id] =
                  Some([Get(pendingReqs[id]) EXCEPT !.category = category.identifier])]
             /\ lastOp' = Op("updateActions", id, "", NoData, <<>>, <<>>, TRUE)
  /\ UNCHANGED <<platform, activeNotifications, delivered, androidVars>>

\* removePendingNotificationRequests + removeDeliveredNotifications.
RemoveRequests(reqs, id) == [reqs EXCEPT ![id] = None]

IosStopPersistentNotification(id) ==
  /\ platform = "ios"
  /\ pendingReqs' = RemoveRequests(pendingReqs, id)
  /\ delivered' = RemoveRequests(delivered, id)
  /\ activeNotifications' = [activeNotifications EXCEPT ![id] = "false"]
  /\ lastOp' = Op("stop", id, "", NoData, <<StatusEvent(FALSE, id)>>, <<>>, TRUE)
  /\ UNCHANGED <<platform, notificationCategories, androidVars>>

\* handleNotificationAction, called by NotificationDelegate for a custom
\* action of a delivered notification.
HandleNotificationAction(actionId, notificationId, data) ==
  /\ platform = "ios"
  /\ IF actionId = StopTracking
     THEN /\ pendingReqs' = RemoveRequests(pendingReqs, notificationId)
          /\ delivered' = RemoveRequests(delivered, notificationId)
          /\ activeNotifications' =
               [activeNotifications EXCEPT ![notificationId] = "false"]
          /\ lastOp' = Op("press", notificationId, actionId, data,
                          <<ActionEvent(actionId, notificationId, data),
                            StatusEvent(FALSE, notificationId)>>, <<>>, FALSE)
     ELSE /\ lastOp' = Op("press", notificationId, actionId, data,
                          <<ActionEvent(actionId, notificationId, data)>>, <<>>, FALSE)
          /\ UNCHANGED <<pendingReqs, delivered, activeNotifications>>
  /\ UNCHANGED <<platform, notificationCategories, androidVars>>

\* The user presses a button of a delivered notification: one of the
\* actions of a registered category with the notification's category
\* identifier.
IosPress ==
  /\ platform = "ios"
  /\ \E id \in Ids :
       /\ delivered[id] # None
       /\ \E category \in notificationCategories :
            /\ category.identifier = Get(delivered[id]).category
            /\ \E i \in 1..Len(category.actions) :
                 HandleNotificationAction(category.actions[i].id, id,
                                          Get(delivered[id]).data)

(***************************************************************************)
(* Permissions.  What the system answers (which permissions are granted,   *)
(* the authorization status) is an input of each call.                     *)
(***************************************************************************)
PermissionResponse(status, notifications, location) ==
  [status |-> status, notifications |-> notifications, location |-> location]

\* NotificationHelper.getPermissionStatus: POST_NOTIFICATIONS counts from
\* Android 13 (TIRAMISU) on and is taken as granted before.
HelperGetPermissionStatus(tiramisu, postNotifications, fineLocation) ==
  LET notificationsGranted == IF tiramisu THEN postNotifications ELSE TRUE
      locationGranted == fineLocation
  IN PermissionResponse(IF notificationsGranted /\ locationGranted THEN "granted"
                        ELSE "denied",
                        notificationsGranted, locationGranted)

\* requestPermissions: the answer of askForPermissions, or the current
\* status when the permissions module is not available.
AskedPermissionStatus(tiramisu, postNotifications, fineLocation) ==
  IF tiramisu
  THEN PermissionResponse(IF postNotifications /\ fineLocation THEN "granted" ELSE "denied",
                          postNotifications, fineLocation)
  ELSE PermissionResponse(IF fineLocation THEN "granted" ELSE "denied",
                          TRUE, fineLocation)

AndroidRequestPermissions ==
  /\ platform = "android"
  /\ \E tiramisu \in BOOLEAN, permissionsModule \in BOOLEAN,
        postNotifications \in BOOLEAN, fineLocation \in BOOLEAN :
       lastOp' = Resolved("requestPermissions",
                          IF permissionsModule
                          THEN AskedPermissionStatus(tiramisu, postNotifications,
                                                     fineLocation)
                          ELSE HelperGetPermissionStatus(tiramisu, postNotifications,
                                                         fineLocation))
  /\ UNCHANGED <<platform, androidVars, iosVars>>

AndroidGetPermissionStatus ==
  /\ platform = "android"
  /\ \E tiramisu \in BOOLEAN, postNotifications \in BOOLEAN, fineLocation \in BOOLEAN :
       lastOp' = Resolved("getPermissionStatus",
                          HelperGetPermissionStatus(tiramisu, postNotifications,
                                                    fineLocation))
  /\ UNCHANGED <<platform, androidVars, iosVars>>

\* ios requestPermissions: requestAuthorization(options: alert, badge,
\* sound) completes with granted or with an error.
IosRequestPermissions ==
  /\ platform = "ios"
  /\ \/ \E granted \in BOOLEAN :
          lastOp' = Resolved("requestPermissions",
                             PermissionResponse(IF granted THEN "granted" ELSE "denied",
                                                granted, FALSE))
     \/ lastOp' = Rejected("requestPermissions", NullId, "ERR_REQUEST_PERMISSIONS")
  /\ UNCHANGED <<platform, androidVars, iosVars>>

\* ios getPermissionStatus: from settings.authorizationStatus.
AuthorizationStatuses ==
  {"authorized", "provisional", "ephemeral", "denied", "notDetermined", "unknown"}

IosPermissionStatus(authorizationStatus) ==
  IF authorizationStatus \in {"authorized", "provisional", "ephemeral"}
  THEN PermissionResponse("granted", TRUE, FALSE)
  ELSE IF authorizationStatus = "denied"
  THEN PermissionResponse("denied", FALSE, FALSE)
  ELSE PermissionResponse("undetermined", FALSE, FALSE)

IosGetPermissionStatus ==
  /\ platform = "ios"
  /\ \E authorizationStatus \in AuthorizationStatuses :
       lastOp' = Resolved("getPermissionStatus", IosPermissionStatus(authorizationStatus))
  /\ UNCHANGED <<platform, androidVars, iosVars>>

requestPermissions == AndroidRequestPermissions \/ IosRequestPermissions
getPermissionStatus == AndroidGetPermissionStatus \/ IosGetPermissionStatus

(***************************************************************************)
(* The interface: one module per platform behind src/index.ts.             *)
(***************************************************************************)
isNotificationActive(id) ==
  IF platform = "android" THEN AndroidIsNotificationActive(id)
  ELSE IosIsNotificationActive(id)

startPersistentNotification(options) ==
  \/ AndroidStartPersistentNotification(options)
  \/ IosStartPersistentNotification(options)

updateNotificationContent(id, content) ==
  \/ AndroidUpdateNotificationContent(id, content)
  \/ IosUpdateNotificationContent(id, content)

updateNotificationActions(id, actions) ==
  \/ AndroidUpdateNotificationActions(id, actions)
  \/ IosUpdateNotificationActions(id, actions)

stopPersistentNotification(id) ==
  \/ AndroidStopPersistentNotification(id)
  \/ IosStopPersistentNotification(id)

\* The main looper runs what is due.
MainLooper ==
  \/ OnStartCommandStart
  \/ OnStartCommandUpdateContent
  \/ OnStartCommandUpdateActions
  \/ OnDestroy
  \/ UpdateRunnableRun
  \/ GraceLambdaRun
  \/ Advance

(***************************************************************************)
(* src/index.ts, startBusTracking: the convenience API.  now is what       *)
(* Date.now() returns.  The object it returns has the properties id and    *)
(* stop; calling a property an object does not have throws a TypeError.    *)
(***************************************************************************)
BusTrackingId(now) == "bus-tracking-" \o ToString(now)

BusTrackingOptions(arrivalMinutes, now) ==
  Options(BusTrackingId(now),
          Content("Rastreando ubicacion",
                  "Proximo bus en " \o ToString(arrivalMinutes) \o " minutos", NoData),
          <<[id |-> "view-map", title |-> "Ver mapa"],
            [id |-> StopTracking, title |-> "Detener"]>>,
          TRUE, arrivalMinutes)

BusTrackingHandle(notificationId) == [id |-> notificationId, properties |-> {"id", "stop"}]

\* await startPersistentNotification(options); return {id, stop}.
StartBusTracking(arrivalMinutes, now) ==
  LET options == BusTrackingOptions(arrivalMinutes, now)
  IN /\ platform = "android"
     /\ Len(mainQueue) < MaxQueue
     /\ mainQueue' = Post(mainQueue, StartMsg(options))
     /\ amsStarted' = TRUE
     /\ lastOp' = [Op("start", options.id, "", NoData,
                       <<StatusEvent(TRUE, options.id)>>, <<>>, TRUE)
                     EXCEPT !.op = "startBusTracking",
                            !.handle = Some(BusTrackingHandle(options.id))]
     /\ UNCHANGED <<platform, isRunning, currentNotificationId, insts, cur, shown, iosVars>>

\* tracking.stop(): stopPersistentNotification(notificationId).
HandleStop ==
  /\ lastOp.handle # None
  /\ "stop" \in Get(lastOp.handle).properties
  /\ AndroidStopPersistentNotification(Get(lastOp.handle).id)

\* tracking.updateArrivalTime(newTime), as the documentation calls it.
HandleUpdateArrivalTime(newTime) ==
  /\ platform = "android"
  /\ lastOp.handle # None
  /\ "updateArrivalTime" \notin Get(lastOp.handle).properties
  /\ lastOp' = Rejected("updateArrivalTime", Get(lastOp.handle).id, "TypeError")
  /\ UNCHANGED <<platform, androidVars, iosVars>>

(***************************************************************************)
(* Spec: the lifecycle under a small set of inputs.                        *)
(***************************************************************************)
StartInputs ==
  {Options(id, Content("T1", "B1", "d1"), ActionList(2), TRUE, arrivalMinutes) :
     id \in Ids, arrivalMinutes \in {0}}
ContentInputs == {Content("T2", "B2", "d2")}
ActionInputs == {ActionList(1)}

Next ==
  \/ \E options \in StartInputs : startPersistentNotification(options)
  \/ \E id \in Ids, content \in ContentInputs : updateNotificationContent(id, content)
  \/ \E id \in Ids, actions \in ActionInputs : updateNotificationActions(id, actions)
  \/ \E id \in Ids : stopPersistentNotification(id)
  \/ AndroidPress
  \/ IosPress
  \/ \E id \in Ids : IosDeliver(id)
  \/ MainLooper

Spec == Init /\ [][Next]_vars

(***************************************************************************)
(* SpecActions: start with every number of actions from 0 to MaxActions.   *)
(***************************************************************************)
ActionId == "a"
ActionStartInputs ==
  {Options(ActionId, Content("T1", "B1", "d1"), ActionList(n), TRUE, 0) :
     n \in 0..MaxActions}

NextActions ==
  \/ \E options \in ActionStartInputs : startPersistentNotification(options)
  \/ AndroidPress
  \/ IosPress
  \/ IosDeliver(ActionId)
  \/ OnStartCommandStart
  \/ OnDestroy
  \/ UpdateRunnableRun
  \/ GraceLambdaRun
  \/ Advance

SpecActions == Init /\ [][NextActions]_vars

(***************************************************************************)
(* SpecTimer: the android service with sessions of one minute, of five     *)
(* minutes and of the default (no arrivalMinutes in the options).          *)
(***************************************************************************)
TimerId == "a"
TimerStartInputs ==
  {Options(TimerId, Content("T1", "B1", "d1"), ActionList(2), FALSE, 0),
   Options(TimerId, Content("T1", "B1", "d1"), ActionList(2), TRUE, 1),
   Options(TimerId, Content("T1", "B1", "d1"), ActionList(2), TRUE, 5)}

InitTimer == Init /\ platform = "android"

NextTimer ==
  \/ \E options \in TimerStartInputs : AndroidStartPersistentNotification(options)
  \/ OnStartCommandStart
  \/ OnDestroy
  \/ UpdateRunnableRun
  \/ GraceLambdaRun
  \/ Advance

SpecTimer == InitTimer /\ [][NextTimer]_vars

(***************************************************************************)
(* SpecUpdate: the android service with a session of one minute and        *)
(* explicit content updates while its timer runs.                          *)
(***************************************************************************)
UpdateStartInputs == {Options(TimerId, Content("T1", "B1", "d1"), ActionList(2), TRUE, 1)}

NextUpdate ==
  \/ \E options \in UpdateStartInputs : AndroidStartPersistentNotification(options)
  \/ \E content \in ContentInputs : AndroidUpdateNotificationContent(TimerId, content)
  \/ OnStartCommandStart
  \/ OnStartCommandUpdateContent
  \/ OnDestroy
  \/ UpdateRunnableRun
  \/ GraceLambdaRun
  \/ Advance

SpecUpdate == InitTimer /\ [][NextUpdate]_vars

(***************************************************************************)
(* SpecFaults: starts with valid options and with options whose id, title  *)
(* or body is absent (NullId) or empty, and starts whose notification the  *)
(* platform declines to post.                                              *)
(***************************************************************************)
ValidStartInputs == {Options(ActionId, Content("T1", "B1", "d1"), ActionList(2), TRUE, 0)}
InvalidStartInputs ==
  {Options(NullId, Content("T1", "B1", "d1"), ActionList(2), TRUE, 0),
   Options(ActionId, Content(NullId, "B1", "d1"), ActionList(2), TRUE, 0),
   Options(ActionId, Content("", "B1", "d1"), ActionList(2), TRUE, 0),
   Options(ActionId, Content("T1", NullId, "d1"), ActionList(2), TRUE, 0),
   Options(ActionId, Content("T1", "", "d1"), ActionList(2), TRUE, 0)}

NextFaults ==
  \/ \E options \in ValidStartInputs \cup InvalidStartInputs :
       startPersistentNotification(options)
  \/ \E options \in ValidStartInputs : IosStartAddFails(options)
  \/ IosDeliver(ActionId)
  \/ OnStartCommandStart
  \/ OnStartCommandStartFails
  \/ OnDestroy
  \/ UpdateRunnableRun
  \/ GraceLambdaRun
  \/ Advance

SpecFaults == Init /\ [][NextFaults]_vars

(***************************************************************************)
(* SpecTeardown: the android service with sessions that end by stop, by    *)
(* the "stop-tracking" button, at the deadline, or whose task the user     *)
(* removes.                                                                *)
(***************************************************************************)
TeardownStartInputs ==
  {Options(TimerId, Content("T1", "B1", "d1"), ActionList(2), TRUE, 0)}

NextTeardown ==
  \/ \E options \in TeardownStartInputs : AndroidStartPersistentNotification(options)
  \/ AndroidStopPersistentNotification(TimerId)
  \/ AndroidPress
  \/ OnTaskRemoved
  \/ OnStartCommandStart
  \/ OnDestroy
  \/ UpdateRunnableRun
  \/ GraceLambdaRun
  \/ Advance

SpecTeardown == InitTimer /\ [][NextTeardown]_vars

(***************************************************************************)
(* SpecPermissions: the permission calls at any point of a notification's  *)
(* life.                                                                   *)
(***************************************************************************)
NextPermissions ==
  \/ requestPermissions
  \/ getPermissionStatus
  \/ \E options \in TeardownStartInputs : startPersistentNotification(options)
  \/ stopPersistentNotification(TimerId)
  \/ IosDeliver(TimerId)
  \/ OnStartCommandStart
  \/ OnDestroy
  \/ UpdateRunnableRun
  \/ GraceLambdaRun
  \/ Advance

SpecPermissions == Init /\ [][NextPermissions]_vars

(***************************************************************************)
(* SpecBus: startBusTracking on android and the use of what it returns.    *)
(***************************************************************************)
BusArrivalInputs == {0}
BusClockInputs == {0, 1}

NextBus ==
  \/ \E arrivalMinutes \in BusArrivalInputs, now \in BusClockInputs :
       StartBusTracking(arrivalMinutes, now)
  \/ HandleStop
  \/ \E newTime \in BusArrivalInputs : HandleUpdateArrivalTime(newTime)
  \/ OnStartCommandStart
  \/ OnDestroy
  \/ UpdateRunnableRun
  \/ GraceLambdaRun
  \/ Advance

SpecBus == InitTimer /\ [][NextBus]_vars

(***************************************************************************)
(* SpecStale: the android service with one-minute sessions that are        *)
(* started again and stopped while their timers run.                       *)
(***************************************************************************)
NextStale ==
  \/ \E options \in UpdateStartInputs : AndroidStartPersistentNotification(options)
  \/ AndroidStopPersistentNotification(TimerId)
  \/ OnStartCommandStart
  \/ OnDestroy
  \/ UpdateRunnableRun
  \/ GraceLambdaRun
  \/ Advance

SpecStale == InitTimer /\ [][NextStale]_vars

(***************************************************************************)
(* SpecRender: the android service with one-minute sessions whose          *)
(* renders may fail in any tick.                                           *)
(***************************************************************************)
NextRender ==
  \/ \E options \in UpdateStartInputs : AndroidStartPersistentNotification(options)
  \/ OnStartCommandStart
  \/ OnDestroy
  \/ UpdateRunnableRun
  \/ UpdateRunnableRenderFails
  \/ GraceLambdaRun
  \/ Advance

SpecRender == InitTimer /\ [][NextRender]_vars

(***************************************************************************)
(* SpecDeadline: the deadline arithmetic of START over arrivalMinutes      *)
(* from 0 to 20 in steps of one half, and around the value from which      *)
(* arrivalMinutes * 60 no longer fits 32 bits (35791395).                  *)
(***************************************************************************)
OverflowFrom == 2147483647 \div 60 + 1
ArrivalInputs ==
  (0..40) \cup {2 * m + d : m \in (OverflowFrom - 5)..(OverflowFrom + 4), d \in {0, 1}}

NextDeadline == \E halfMinutes \in ArrivalInputs : OnStartCommandArrivalTime(halfMinutes)

SpecDeadline == InitTimer /\ [][NextDeadline]_vars

(***************************************************************************)
(* SpecRerender: the android service under one-minute sessions of one id   *)
(* with two actions, updateActions to one action, and update of the        *)
(* content, interleaved with the runs of the timer.                        *)
(***************************************************************************)
NextRerender ==
  \/ \E options \in UpdateStartInputs : AndroidStartPersistentNotification(options)
  \/ \E actions \in ActionInputs : AndroidUpdateNotificationActions(TimerId, actions)
  \/ \E content \in ContentInputs : AndroidUpdateNotificationContent(TimerId, content)
  \/ MainLooper

SpecRerender == InitTimer /\ [][NextRerender]_vars

(***************************************************************************)
(* SpecMalformed: start with MaxActions actions of which any of the first  *)
(* three may be malformed: the entry at an odd position then lacks its     *)
(* id, the entry at an even position its title.  The entries from the      *)
(* fourth on are well-formed.                                              *)
(***************************************************************************)
MalformedActionList(malformed) ==
  [i \in 1..MaxActions |->
     IF i \notin malformed THEN Action(i)
     ELSE IF i % 2 = 1 THEN [Action(i) EXCEPT !.id = NullId]
     ELSE [Action(i) EXCEPT !.title = NullId]]

MalformedStartInputs ==
  {Options(ActionId, Content("T1", "B1", "d1"), MalformedActionList(malformed), TRUE, 0) :
     malformed \in SUBSET (1..MaxShownActions)}

NextMalformed ==
  \/ \E options \in MalformedStartInputs : startPersistentNotification(options)
  \/ IosDeliver(ActionId)
  \/ OnStartCommandStart
  \/ OnDestroy
  \/ UpdateRunnableRun
  \/ GraceLambdaRun
  \/ Advance

SpecMalformed == Init /\ [][NextMalformed]_vars

(***************************************************************************)
(* What "a tracked notification with this id is registered" is in the      *)
(* state of each platform.                                                 *)
(*   android: the service runs in the foreground for this id               *)
(*            (startForegroundNotification set the statics).               *)
(*   ios:     the notification center holds a pending request or a         *)
(*            delivered notification of this identifier.                   *)
(***************************************************************************)
AndroidRegistered(id) == isRunning /\ currentNotificationId = id
IosRegistered(id) == pendingReqs[id] # None \/ delivered[id] # None
Registered(id) ==
  IF platform = "android" THEN AndroidRegistered(id) ELSE IosRegistered(id)

\* The number of onNotificationAction{actionId, notificationId, data} events
\* in a sequence of events.
ActionCount(events, actionId, id, data) ==
  Cardinality({i \in 1..Len(events) : events[i] = ActionEvent(actionId, id, data)})

\* Some onServiceStatusChange event is in a sequence of events.
HasStatusEvent(events) ==
  \E i \in 1..Len(events) : events[i].name = "onServiceStatusChange"

(***************************************************************************)
(* C1.  For every valid start(options), isActive(options.id) answers true  *)
(* immediately after the start call has resolved, however the call         *)
(* interleaves with the platform's delivery of the start request to the    *)
(* service: in the state a resolved start leaves, isNotificationActive of  *)
(* its id is true.                                                         *)
(* Refuted on android: the module resolves once startForegroundService has *)
(* returned; isRunning is set only when the main looper runs               *)
(* onStartCommand.                                                         *)
(***************************************************************************)
C1_ActiveAfterStartResolves ==
  (lastOp.op = "start" /\ lastOp.resolved) => isNotificationActive(lastOp.id)

\* C1: a start has resolved, its START intent is still in the looper's
\* queue, and isNotificationActive answers false.
C1_StartResolvedNotActive ==
  /\ platform = "android"
  /\ lastOp.op = "start" /\ lastOp.resolved
  /\ \E i \in 1..Len(mainQueue) :
       mainQueue[i].type = "START" /\ Get(mainQueue[i].options).id = lastOp.id
  /\ ~isNotificationActive(lastOp.id)

(***************************************************************************)
(* C2.  For every id that is active, isActive(id) answers false            *)
(* immediately after stop(id) has resolved, however the call interleaves   *)
(* with the platform's teardown of the service: a resolved stop(id) of a   *)
(* registered id leaves a state where isNotificationActive(id) is false.   *)
(* Refuted on android: stopService returns at once and isRunning is reset  *)
(* only when the main looper runs onDestroy.                               *)
(***************************************************************************)
C2_InactiveAfterStopResolves ==
  [][\A id \in Ids :
       (lastOp'.op = "stop" /\ lastOp'.id = id /\ lastOp'.resolved /\ Registered(id))
         => ~(isNotificationActive(id))']_vars

\* C2: a stop of the running id has resolved, onDestroy is still in the
\* looper's queue, and isNotificationActive answers true.
C2_StopResolvedStillActive ==
  /\ platform = "android"
  /\ lastOp.op = "stop" /\ lastOp.resolved
  /\ AndroidRegistered(lastOp.id)
  /\ \E i \in 1..Len(mainQueue) : mainQueue[i].type = "DESTROY"
  /\ isNotificationActive(lastOp.id)

(***************************************************************************)
(* C3.  stop is idempotent with respect to events: after start(id), two    *)
(* calls stop(id) in a row send exactly one                                *)
(* onServiceStatusChange{isRunning: false} event, on both platforms.       *)
(* Refuted on both: each module sends the event on every stop.             *)
(***************************************************************************)
C3_StopTwiceOneEvent == lastOp.stops = 2 => lastOp.stopEvents = 1

\* C3: start(id), stop(id), stop(id) have been called in a row and the two
\* stops have sent two events.
C3_StopTwiceTwoEvents ==
  /\ lastOp.op = "stop" /\ lastOp.started = lastOp.id
  /\ lastOp.stops = 2 /\ lastOp.stopEvents = 2

(***************************************************************************)
(* C4.  stop(id) of an id that is not active is a no-op: it changes no     *)
(* lifecycle state and removes no notification; when a notification of     *)
(* another id is active, that notification, its service and its timer stay *)
(* as they are.                                                            *)
(* Refuted on android: stopService names the service, not the id, so       *)
(* stop("b") tears down the service running for "a".                       *)
(***************************************************************************)
C4_StopOfInactiveIsNoOp ==
  [][\A id \in Ids, other \in Ids :
       (/\ lastOp'.op = "stop" /\ lastOp'.id = id
        /\ other # id /\ ~Registered(id) /\ Registered(other))
         => UNCHANGED <<isRunning, currentNotificationId, amsStarted, mainQueue,
                        insts, cur, shown, pendingReqs, delivered>>]_vars

\* C4: stop(id) was called while another id was running, and the system has
\* dropped the service and scheduled its destruction.
C4_StopOfOtherIdStopsService ==
  /\ platform = "android"
  /\ lastOp.op = "stop"
  /\ isRunning /\ currentNotificationId \in Ids /\ currentNotificationId # lastOp.id
  /\ ~amsStarted
  /\ \E i \in 1..Len(mainQueue) : mainQueue[i].type = "DESTROY"

(***************************************************************************)
(* C5.  isActive(id) is id-specific: in every reachable state it answers   *)
(* true if and only if a tracked notification with exactly this id is      *)
(* registered, and false for any other id even while some notification is  *)
(* active.                                                                 *)
(* Refuted on android: isNotificationActive ignores its id and answers     *)
(* isRunning.  (On ios it answers false once the pending request has been  *)
(* delivered.)                                                             *)
(***************************************************************************)
C5_IsActiveIdSpecific ==
  \A id \in Ids : isNotificationActive(id) <=> Registered(id)

\* C5: the service runs for one id and isNotificationActive answers true
\* for another.
C5_ActiveForOtherId ==
  /\ platform = "android"
  /\ \E id \in Ids, other \in Ids :
       /\ other # id
       /\ AndroidRegistered(other)
       /\ isNotificationActive(id)

(***************************************************************************)
(* C6.  Dispatching the reserved action "stop-tracking" for X while X is   *)
(* active results in exactly one                                           *)
(* onServiceStatusChange{isRunning: false, notificationId: X} event and in *)
(* isActive(X) being false.                                                *)
(* Refuted on android: onReceive calls stopService and sends no event (the *)
(* service sends none either), and isRunning stays true until onDestroy.   *)
(***************************************************************************)
C6_StopTrackingOneStatusEvent ==
  [][\A id \in Ids :
       (/\ lastOp'.op = "press" /\ lastOp'.actionId = StopTracking
        /\ lastOp'.id = id /\ Registered(id))
         => /\ StatusCount(lastOp'.events, FALSE, id) = 1
            /\ ~(isNotificationActive(id))']_vars

\* C6: "stop-tracking" was pressed on the running notification, no event
\* went to JavaScript and the destruction of the service is scheduled.
C6_StopTrackingNoStatusEvent ==
  /\ platform = "android"
  /\ lastOp.op = "press" /\ lastOp.actionId = StopTracking
  /\ AndroidRegistered(lastOp.id)
  /\ lastOp.events = <<>>
  /\ \E i \in 1..Len(mainQueue) : mainQueue[i].type = "DESTROY"

(***************************************************************************)
(* C7.  Every press of an action button received from the platform is      *)
(* forwarded to the listeners as exactly one onNotificationAction event    *)
(* with the same actionId, notificationId and data.                        *)
(* Refuted on android: sendEventToJS broadcasts an intent that no receiver *)
(* of the module is registered for; no event reaches JavaScript.           *)
(***************************************************************************)
C7_PressForwardedOnce ==
  lastOp.op = "press" =>
    ActionCount(lastOp.events, lastOp.actionId, lastOp.id, lastOp.data) = 1

\* C7: a press was received, the action was broadcast and no event was sent.
C7_PressNotForwarded ==
  /\ platform = "android"
  /\ lastOp.op = "press"
  /\ lastOp.broadcasts = <<ActionEvent(lastOp.actionId, lastOp.id, lastOp.data)>>
  /\ lastOp.events = <<>>

(***************************************************************************)
(* C8.  Dispatching an action whose actionId is not "stop-tracking" leaves *)
(* the lifecycle unchanged: the tracked notification, isActive, the armed  *)
(* timer and the displayed content are the same before and after, and no   *)
(* onServiceStatusChange event is sent.                                    *)
(***************************************************************************)
C8_OtherActionsLeaveLifecycle ==
  [][(lastOp'.op = "press" /\ lastOp'.actionId # StopTracking)
       => /\ UNCHANGED <<androidVars, iosVars>>
          /\ \A id \in Ids : (isNotificationActive(id))' = isNotificationActive(id)
          /\ ~HasStatusEvent(lastOp'.events)]_vars

\* C8: "view-map" was pressed on a notification whose timer is armed
\* (android) or that is delivered (ios).
C8_OtherActionPressed ==
  /\ lastOp.op = "press" /\ lastOp.actionId = "view-map"
  /\ \/ /\ platform = "android"
        /\ AndroidRegistered(lastOp.id)
        /\ \E i \in 1..Len(mainQueue) : mainQueue[i].type \in {"tick", "grace"}
     \/ /\ platform = "ios"
        /\ delivered[lastOp.id] # None

(***************************************************************************)
(* C9.  Action truncation: for any list of n well-formed actions passed to *)
(* start, the rendered notification carries exactly the first min(n, 3)    *)
(* actions in their original order (5 supplied gives exactly 3), and       *)
(* supplying more than 3 never makes start fail.                           *)
(*   android: the notification onStartCommand displays for a START intent  *)
(*            has the first min(n, 3) actions of the intent's options.     *)
(*   ios:     start registers the category "category_<id>" with the first  *)
(*            min(n, 3) actions and the request carries that category;     *)
(*            it is the only category of this identifier when none was     *)
(*            registered before.                                           *)
(*   both:    the call resolves.                                           *)
(***************************************************************************)
FirstThree(actions) ==
  [i \in 1..(IF Len(actions) < 3 THEN Len(actions) ELSE 3) |->
     [id |-> actions[i].id, title |-> actions[i].title]]

MinutesLeft(remainingMs) ==
  CHOOSE n \in 1..(remainingMs \div 60000 + 1) :
    n * 60000 >= remainingMs /\ (n - 1) * 60000 < remainingMs

ExpectedBody(remainingMs) ==
  IF remainingMs <= 0 THEN "El bus esta llegando!"
  ELSE IF MinutesLeft(remainingMs) = 1 THEN "Proximo bus en 1 minuto"
  ELSE "Proximo bus en " \o ToString(MinutesLeft(remainingMs)) \o " minutos"

C10_TimerTemplating ==
  [][lastOp'.op = "tick" =>
       LET inst == insts[Head(mainQueue).inst]
       IN inst.notificationOptions # None =>
            /\ shown' # None
            /\ Get(shown').body = ExpectedBody(inst.remainingMs)]_vars

\* C10: a session started with arrivalMinutes = 5; the tick six seconds
\* after the start reads 294000 ms left and displays 5 minutes.
C10_TickAtSixSecondsShowsFive ==
  /\ lastOp.op = "tick"
  /\ lastOp.arg = 294000
  /\ cur # 0
  /\ Get(insts[cur].notificationOptions).hasArrival
  /\ Get(insts[cur].notificationOptions).arrivalMinutes = 5
  /\ shown # None
  /\ Get(shown).body = "Proximo bus en 5 minutos"

(***************************************************************************)
(* C11.  Auto-stop bound: a tracking session started with arrivalMinutes   *)
(* and not stopped explicitly is stopped (isActive false, timer disarmed)  *)
(* no later than one tick interval (6 s) plus the grace window (5 s) after *)
(* its arrival deadline, and not before the deadline.                      *)
(*   not before: a step of the grace lambda that stops the running service *)
(*               finds the deadline of the live instance reached;          *)
(*   no later:   while the service runs with its deadline reached, a       *)
(*               callback of the live instance that stops it is pending:   *)
(*               the grace lambda within the grace window, or a tick       *)
(*               within one interval.                                      *)
(* Refuted: the grace lambda of an earlier session is not cancelled by a   *)
(* new start; it stops the new session before its deadline.                *)
(***************************************************************************)
C11_AutoStopBound ==
  [][/\ (lastOp'.op = "grace" /\ isRunning /\ cur # 0)
          => insts[cur].remainingMs <= 0
     /\ (isRunning /\ cur # 0 /\ insts[cur].handler /\ insts[cur].remainingMs <= 0)
          => \E i \in 1..Len(mainQueue) :
               /\ mainQueue[i].inst = cur
               /\ \/ mainQueue[i].type = "grace" /\ mainQueue[i].due <= 5000
                  \/ mainQueue[i].type = "tick" /\ mainQueue[i].due <= 6000]_vars

\* C11: the grace lambda has stopped the service (foreground left, statics
\* and timer reset) while the live session's deadline is still ahead.
C11_StoppedBeforeDeadline ==
  /\ platform = "android"
  /\ lastOp.op = "grace"
  /\ cur # 0
  /\ insts[cur].remainingMs > 0
  /\ ~insts[cur].foreground /\ ~insts[cur].handler
  /\ ~isRunning

(***************************************************************************)
(* C12.  The Auto-Update Timer is armed by start only if                   *)
(* options.arrivalMinutes is present: after a start without arrivalMinutes *)
(* no timer tick ever occurs, so the displayed content changes only        *)
(* through explicit update calls and the notification is never             *)
(* auto-stopped.  In every state, an instance whose stored options carry   *)
(* no arrivalMinutes has no run of its updateRunnable pending or just      *)
(* done.                                                                   *)
(* Refuted on android: onStartCommand takes 5 minutes when arrivalMinutes  *)
(* is absent and always calls startAutoUpdate.                             *)
(***************************************************************************)
C12_TimerOnlyWithArrivalMinutes ==
  \A i \in 1..Len(mainQueue) :
    (/\ mainQueue[i].type = "tick" /\ mainQueue[i].current
     /\ cur # 0 /\ mainQueue[i].inst = cur
     /\ insts[cur].notificationOptions # None)
      => Get(insts[cur].notificationOptions).hasArrival

\* C12: a session started without arrivalMinutes; a tick has replaced the
\* displayed body by the countdown and the next one is pending.
C12_TickWithoutArrivalMinutes ==
  /\ platform = "android"
  /\ lastOp.op = "tick"
  /\ cur # 0 /\ insts[cur].notificationOptions # None
  /\ ~Get(insts[cur].notificationOptions).hasArrival
  /\ shown # None /\ Get(shown).body = "Proximo bus en 5 minutos"
  /\ \E i \in 1..Len(mainQueue) :
       mainQueue[i].type = "tick" /\ mainQueue[i].current /\ mainQueue[i].inst = cur

(***************************************************************************)
(* C13.  An explicit update(id, content) on the active id while the timer  *)
(* is armed replaces the displayed content and leaves the timer armed      *)
(* with the same deadline; the next tick overwrites the displayed body     *)
(* with the countdown text again.                                          *)
(* The timer of the live instance is armed when a run of its current       *)
(* updateRunnable is pending.  The step in which the service handles a     *)
(* matching UPDATE_CONTENT then displays the new title and body, removes   *)
(* nothing but the handled intent from the queue (every pending callback   *)
(* keeps its delay) and leaves the time to the deadline, the handler and   *)
(* the updateRunnable as they were; and every run of the current           *)
(* updateRunnable of a running session displays the countdown text of      *)
(* the time left, whatever was displayed before.                           *)
(***************************************************************************)
Armed(g, q) ==
  \E i \in 1..Len(q) : q[i].type = "tick" /\ q[i].current /\ q[i].inst = g

C13_UpdateKeepsTimer ==
  [][/\ (/\ lastOp'.op = "onUpdateContent"
          /\ isRunning /\ cur # 0
          /\ currentNotificationId = Head(mainQueue).id
          /\ Armed(cur, mainQueue))
           => /\ shown' # None
              /\ Get(shown').title = Get(Head(mainQueue).content).title
              /\ Get(shown').body = Get(Head(mainQueue).content).body
              /\ mainQueue' = Tail(mainQueue)
              /\ Armed(cur, mainQueue')
              /\ cur' = cur
              /\ insts'[cur].remainingMs = insts[cur].remainingMs
              /\ insts'[cur].handler /\ insts'[cur].updateRunnable
     /\ (/\ lastOp'.op = "tick"
          /\ isRunning /\ cur # 0
          /\ Head(mainQueue).inst = cur /\ Head(mainQueue).current)
           => /\ shown' # None
              /\ Get(shown').title = TimerTitle
              /\ Get(shown').body = ExpectedBody(insts[cur].remainingMs)]_vars

\* C13: the service has just handled a matching update before the deadline:
\* the new content is displayed and the next tick is still to come.
C13_UpdatedWhileArmed ==
  /\ platform = "android"
  /\ lastOp.op = "onUpdateContent"
  /\ isRunning /\ cur # 0 /\ currentNotificationId = TimerId
  /\ insts[cur].remainingMs > 0 /\ insts[cur].remainingMs < ArrivalDelayMs(1)
  /\ shown # None /\ Get(shown).title = "T2" /\ Get(shown).body = "B2"
  /\ \E i \in 1..Len(mainQueue) :
       /\ mainQueue[i].type = "tick" /\ mainQueue[i].current /\ mainQueue[i].inst = cur
       /\ mainQueue[i].due > 0

(***************************************************************************)
(* C14.  A tracked notification stays registered for its whole lifetime:   *)
(* between a successful start(id) and the next stop(id),                   *)
(* isNotificationActive(id) is true, also after the platform has           *)
(* delivered (displayed) the notification.                                 *)
(* A notification is tracked on android while the service runs for its     *)
(* id, and on ios while the module's own record of it, written true by     *)
(* start and false by every stop, says true.                               *)
(* Refuted on ios: isNotificationActive looks among the pending requests   *)
(* only, and the request of a start stops being pending when its 0.1 s     *)
(* trigger fires and the notification is delivered.                        *)
(***************************************************************************)
Tracked(id) ==
  IF platform = "android" THEN AndroidRegistered(id)
  ELSE activeNotifications[id] = "true"

C14_ActiveWhileTracked ==
  \A id \in Ids : Tracked(id) => isNotificationActive(id)

\* C14: a started notification has just been delivered and is displayed;
\* no stop was called, and isNotificationActive answers false.
C14_DeliveredNotActive ==
  /\ platform = "ios"
  /\ lastOp.op = "deliver"
  /\ \E id \in Ids :
       /\ activeNotifications[id] = "true"
       /\ delivered[id] # None
       /\ pendingReqs[id] = None
       /\ ~isNotificationActive(id)

(***************************************************************************)
(* C15.  update(id, content) for an id that is not the active              *)
(* notification is a no-op on notifications: nothing is created,           *)
(* displayed or altered and no tracked state changes; this includes an     *)
(* update after stop.                                                      *)
(* A call of updateNotificationContent for an id that is not registered    *)
(* leaves the requests, the delivered and displayed notifications and the  *)
(* tracked state as they were, and so does the android service when it     *)
(* handles an UPDATE_CONTENT whose id is not currentNotificationId.        *)
(* Refuted on ios: updateNotificationContent never looks whether the id    *)
(* is known; it adds a new request under it, which is delivered 0.1 s      *)
(* later.                                                                  *)
(***************************************************************************)
C15_UpdateOfOtherIdIsNoOp ==
  [][/\ (lastOp'.op = "update" /\ ~Registered(lastOp'.id))
           => UNCHANGED <<pendingReqs, delivered, activeNotifications,
                          shown, isRunning, currentNotificationId>>
     /\ (lastOp'.op = "onUpdateContent" /\ currentNotificationId # Head(mainQueue).id)
           => UNCHANGED <<shown, isRunning, currentNotificationId>>]_vars

\* C15: after stop(id) an update(id, content) has left a pending request,
\* about to be delivered, for a notification that is not tracked.
C15_UpdateAfterStopCreatesRequest ==
  /\ platform = "ios"
  /\ lastOp.op = "update"
  /\ activeNotifications[lastOp.id] = "false"
  /\ delivered[lastOp.id] = None
  /\ pendingReqs[lastOp.id] # None
  /\ Get(pendingReqs[lastOp.id]).body = "B2"

(***************************************************************************)
(* C16.  updateActions(id, actions) on an active notification succeeds     *)
(* and re-renders the notification with the first min(n, 3) of the new     *)
(* actions, at any point of the notification's lifetime, also after it     *)
(* has been displayed.                                                     *)
(* A call of updateNotificationActions for a tracked id resolves; on ios   *)
(* the category of the id then holds the first three of the new actions    *)
(* and the notification's request names it; on android the service, when   *)
(* it handles the UPDATE_ACTIONS of its current id, displays the first     *)
(* three of the new actions.                                               *)
(* Refuted on ios: once the notification has been delivered no pending     *)
(* request has its identifier and updateNotificationActions rejects with   *)
(* ERR_NOTIFICATION_NOT_FOUND.                                             *)
(***************************************************************************)
C16_UpdateActionsRerenders ==
  [][/\ \A id \in Ids, actions \in ActionInputs :
          (updateNotificationActions(id, actions) /\ Tracked(id)) =>
            /\ lastOp'.resolved
            /\ platform = "ios" =>
                 LET expected == [identifier |-> CategoryId(id),
                                  actions |-> FirstThree(actions)]
                 IN /\ expected \in notificationCategories'
                    /\ pendingReqs'[id] # None
                    /\ Get(pendingReqs'[id]).category = expected.identifier
     /\ (/\ lastOp'.op = "onUpdateActions"
          /\ isRunning /\ currentNotificationId = Head(mainQueue).id)
           => /\ shown' # None
              /\ Get(shown').actions = FirstThree(Head(mainQueue).actions)]_vars

\* C16: updateActions was rejected for a notification that was started, not
\* stopped, and is displayed.
C16_RejectedAfterDelivery ==
  /\ platform = "ios"
  /\ lastOp.op = "updateActions" /\ ~lastOp.resolved
  /\ activeNotifications[lastOp.id] = "true"
  /\ delivered[lastOp.id] # None
  /\ pendingReqs[lastOp.id] = None

(***************************************************************************)
(* C17.  At most one tracked notification is active per process: after     *)
(* starts with distinct ids there is never more than one notification      *)
(* registered or displayed.                                                *)
(* In every state at most one id is tracked or registered.                 *)
(* Refuted on ios: every start adds a request under its own identifier     *)
(* and removes none; the android service has one notification and one      *)
(* currentNotificationId.                                                  *)
(***************************************************************************)
C17_AtMostOneActive ==
  Cardinality({id \in Ids : Tracked(id) \/ Registered(id)}) <= 1

\* C17: after the start of a second id both notifications are recorded as
\* active and both have a request or are displayed.
C17_TwoActive ==
  /\ platform = "ios"
  /\ lastOp.op = "start" /\ lastOp.resolved
  /\ \A id \in Ids : activeNotifications[id] = "true" /\ IosRegistered(id)
  /\ \E id \in Ids : id # lastOp.id /\ delivered[id] # None

(***************************************************************************)
(* C18.  start(options) with id, title or body missing or empty fails      *)
(* with InvalidOptions and has no effect: no notification, no              *)
(* registration, no timer, no onServiceStatusChange{isRunning: true}.      *)
(* A call of startPersistentNotification with such options does not        *)
(* resolve, emits nothing and changes nothing on either platform, and the  *)
(* android service never handles a START that carries such options.        *)
(* Refuted: the android module validates nothing (it starts the service,   *)
(* emits isRunning: true and resolves; the service displays the            *)
(* notification with "" for an absent text and arms the timer), and the    *)
(* ios guard rejects absent fields only, not empty ones.                   *)
(***************************************************************************)
C18_InvalidStartRejected ==
  [][/\ \A options \in InvalidStartInputs :
          startPersistentNotification(options) =>
            /\ ~lastOp'.resolved
            /\ lastOp'.events = <<>>
            /\ UNCHANGED <<androidVars, iosVars>>
     /\ lastOp'.op = "onStart" =>
          Get(Head(mainQueue).options) \notin InvalidStartInputs]_vars

\* C18: the android service runs in the foreground for options without an
\* id, displays their notification and has armed the timer.
C18_StartedWithoutId ==
  /\ platform = "android"
  /\ lastOp.op = "onStart"
  /\ isRunning /\ currentNotificationId = NullId
  /\ shown # None /\ Get(shown).id = NullId
  /\ cur # 0 /\ Armed(cur, mainQueue)

(***************************************************************************)
(* C19.  When the platform declines to post the notification during        *)
(* start, the start call rejects rather than resolving, and is not         *)
(* retried.                                                                *)
(* On ios the call whose add fails rejects, emits nothing and leaves the   *)
(* requests as they were.  On android, when startForeground fails for the  *)
(* options of a START, the last call of the API was not a start of that    *)
(* id that resolved, and the failure puts no further START in the queue.   *)
(* Refuted on android: startPersistentNotification emits isRunning: true   *)
(* and resolves as soon as the intent is sent; the service posts the       *)
(* notification later, and when that fails it only logs and stops itself.  *)
(***************************************************************************)
IsStart(m) == m.type = "START"

C19_DeclinedStartRejects ==
  [][/\ (lastOp'.op = "start" /\ lastOp'.error = "ERR_ADD_NOTIFICATION")
           => /\ ~lastOp'.resolved
              /\ lastOp'.events = <<>>
              /\ UNCHANGED <<pendingReqs, delivered, activeNotifications>>
     /\ lastOp'.op = "onStartFailed"
           => /\ lastOp.started # Get(Head(mainQueue).options).id
              /\ SelectSeq(mainQueue', IsStart) = SelectSeq(Tail(mainQueue), IsStart)]_vars

\* C19: start(id) resolved and the service has then failed to post the
\* notification: nothing is displayed, the service does not run.
C19_ResolvedThenDeclined ==
  /\ platform = "android"
  /\ lastOp.op = "onStartFailed"
  /\ lastOp.started = ActionId
  /\ currentNotificationId = ActionId
  /\ ~isRunning /\ shown = None

(***************************************************************************)
(* C20.  Every end of tracking (an explicit stop, the "stop-tracking"      *)
(* action, the timer's auto-stop after the grace period) emits             *)
(* onServiceStatusChange{isRunning: false} for that notification.          *)
(* Each step that ends the tracking of a registered id, a call of stop     *)
(* for it, a press of "stop-tracking" on it, or the run of the grace       *)
(* lambda while the service runs for it, emits at least one such event     *)
(* with that id.                                                           *)
(* Refuted on android: the service has no way to emit events; the grace    *)
(* lambda calls stopAutoUpdate and stopForegroundService and nothing       *)
(* else, and the receiver of "stop-tracking" only calls stopService.       *)
(***************************************************************************)
C20_EveryEndEmitsStatus ==
  [][\A id \in Ids :
       (/\ Registered(id)
        /\ \/ lastOp'.op = "stop" /\ lastOp'.id = id
           \/ lastOp'.op = "press" /\ lastOp'.actionId = StopTracking /\ lastOp'.id = id
           \/ lastOp'.op = "grace")
         => StatusCount(lastOp'.events, FALSE, id) >= 1]_vars

\* C20: the grace lambda has just stopped the service after the deadline:
\* the notification is gone, the destruction is scheduled and no event
\* was emitted.
C20_AutoStopWithoutEvent ==
  /\ platform = "android"
  /\ lastOp.op = "grace" /\ lastOp.events = <<>>
  /\ ~isRunning /\ currentNotificationId = NullId /\ shown = None
  /\ cur # 0 /\ insts[cur].remainingMs = 0
  /\ ~insts[cur].foreground /\ ~insts[cur].handler
  /\ \E i \in 1..Len(mainQueue) : mainQueue[i].type = "DESTROY"

(***************************************************************************)
(* C21.  Resource discipline: every path that ends tracking (explicit      *)
(* stop, the "stop-tracking" action, the terminal auto-arrival path and    *)
(* app-level teardown, the removal of the task) releases the background    *)
(* service, so that tracking never ends with the service left alive.       *)
(* After each such step on android, a service instance that is alive has   *)
(* its destruction scheduled.                                              *)
(* Refuted: onTaskRemoved only logs; the service, its notification and     *)
(* its timer go on after the task is removed.                              *)
(***************************************************************************)
DestroyPending(q) == \E i \in 1..Len(q) : q[i].type = "DESTROY"

C21_EveryEndReleasesService ==
  [][(/\ platform = "android"
      /\ \/ lastOp'.op = "stop"
         \/ lastOp'.op = "press" /\ lastOp'.actionId = StopTracking
         \/ lastOp'.op = "grace" /\ Head(mainQueue).inst = cur
         \/ lastOp'.op = "onTaskRemoved"
      /\ cur' # 0)
       => DestroyPending(mainQueue')]_vars

\* C21: the task was removed while the service ran in the foreground; the
\* service is alive, still in the foreground, and nothing will destroy it
\* before its timer does.
C21_AliveAfterTaskRemoved ==
  /\ platform = "android"
  /\ lastOp.op = "onTaskRemoved"
  /\ cur # 0 /\ insts[cur].alive /\ insts[cur].foreground
  /\ isRunning /\ shown # None
  /\ ~DestroyPending(mainQueue)

(***************************************************************************)
(* C22.  Permission reduction: in every state returned by                  *)
(* requestPermissions or getPermissionStatus, status is "granted" only if  *)
(* both the notification permission and the location permission are        *)
(* granted; with notifications granted and location not, status is         *)
(* "denied", never "granted", while the fields still report                *)
(* notifications: true and location: false.                                *)
(* Refuted on ios: both calls derive status from the notification          *)
(* authorization alone and always report location: false, so they answer   *)
(* status "granted" with location: false.                                  *)
(***************************************************************************)
C22_GrantedOnlyIfBoth ==
  (lastOp.op \in {"requestPermissions", "getPermissionStatus"} /\ lastOp.resolved)
    => LET response == Get(lastOp.response)
       IN /\ response.status = "granted" => response.notifications /\ response.location
          /\ (response.notifications /\ ~response.location) => response.status = "denied"

\* C22: a response with status "granted", notifications: true and
\* location: false.
C22_GrantedWithoutLocation ==
  /\ platform = "ios"
  /\ lastOp.op \in {"requestPermissions", "getPermissionStatus"} /\ lastOp.resolved
  /\ Get(lastOp.response) = PermissionResponse("granted", TRUE, FALSE)

(***************************************************************************)
(* C23.  The notification title is not affected by the auto-update timer:  *)
(* across any tick the displayed title is the same as before the tick;     *)
(* ticks change only the body.                                             *)
(* Every run of updateRunnable that finds a notification displayed leaves  *)
(* one displayed with the same title and the same action buttons.          *)
(* Refuted on android: updateNotificationWithTime replaces the whole       *)
(* content by its own title and body; the first tick after a start         *)
(* replaces the caller's title.                                            *)
(***************************************************************************)
C23_TickKeepsTitle ==
  [][(lastOp'.op = "tick" /\ shown # None)
       => /\ shown' # None
          /\ Get(shown').title = Get(shown).title
          /\ Get(shown').actions = Get(shown).actions]_vars

\* C23: the first tick of a five-minute session, run as soon as the session
\* started with the title "T1", has left the timer's title displayed.
C23_FirstTickReplacedTitle ==
  /\ platform = "android"
  /\ lastOp.op = "tick" /\ lastOp.arg = ArrivalDelayMs(5)
  /\ isRunning /\ currentNotificationId = TimerId
  /\ shown # None /\ Get(shown).title = TimerTitle /\ Get(shown).title # "T1"
  /\ Get(shown).body = "Proximo bus en 5 minutos"

(***************************************************************************)
(* C24.  The handle returned by startBusTracking(arrivalMinutes,           *)
(* channelId) offers both operations the documentation promises:           *)
(* updateArrivalTime(newTime), which updates the arrival time shown by     *)
(* the notification it started, and stop(), which stops that               *)
(* notification.                                                           *)
(* Whatever handle the caller holds has both properties, and no call of    *)
(* updateArrivalTime or stop on it fails.                                  *)
(* Refuted: the object returned has id and stop only; the call             *)
(* tracking.updateArrivalTime(newTime) of the documentation throws.        *)
(***************************************************************************)
C24_HandleOffersBoth ==
  /\ lastOp.handle # None
       => {"updateArrivalTime", "stop"} \subseteq Get(lastOp.handle).properties
  /\ lastOp.op = "updateArrivalTime" => lastOp.resolved

\* C24: updateArrivalTime was called on the handle of the running
\* notification and threw; the notification is as it was.
C24_UpdateArrivalTimeThrows ==
  /\ lastOp.op = "updateArrivalTime" /\ lastOp.error = "TypeError"
  /\ lastOp.handle # None /\ Get(lastOp.handle).id = currentNotificationId
  /\ isRunning /\ shown # None

(***************************************************************************)
(* C25.  Stale-timer guard: if stop(id) cancels the timer at the instant   *)
(* a scheduled tick was due and the would-be tick callback is invoked      *)
(* afterwards anyway, the callback performs no render: the removed         *)
(* notification is not re-posted and no state changes.                     *)
(* A run of an updateRunnable on an instance whose timer has been          *)
(* cancelled (its handler is null) changes neither what is displayed nor   *)
(* the instance nor the statics, and posts nothing.                        *)
(* Refuted on android: run() and updateNotificationWithTime do not ask     *)
(* whether the timer is still armed; onDestroy leaves notificationOptions  *)
(* set, so a run after it renders and notifies.  Such a run happens: a     *)
(* second start replaces updateRunnable without removing the callbacks of  *)
(* the first, and stopAutoUpdate removes those of the second only.         *)
(***************************************************************************)
C25_StaleTickRendersNothing ==
  [][(lastOp'.op = "tick" /\ ~insts[Head(mainQueue).inst].handler)
       => /\ shown' = shown
          /\ mainQueue' = Tail(mainQueue)
          /\ UNCHANGED <<isRunning, currentNotificationId, amsStarted, cur>>
          /\ \A g \in InstIds :
               insts[g].alive => insts'[g] = insts[g]]_vars

\* C25: after stop the service was destroyed and its notification removed;
\* a run of an earlier updateRunnable has then displayed the notification
\* again, with no service running.
C25_RepostedAfterStop ==
  /\ platform = "android"
  /\ lastOp.op = "tick"
  /\ cur = 0 /\ ~isRunning /\ currentNotificationId = NullId
  /\ ~DestroyPending(mainQueue)
  /\ shown # None /\ Get(shown).title = TimerTitle

(***************************************************************************)
(* C26.  Single timer: in every reachable state at most one auto-update    *)
(* tick callback is pending process-wide; a second start (same or new id)  *)
(* while a timer is armed cancels the previous timer, so that a later      *)
(* stop leaves no timer callback pending at all.                           *)
(* The main looper never holds more than one run of an updateRunnable,     *)
(* and none once the service has been destroyed.                           *)
(* Refuted on android: startAutoUpdate overwrites handler and              *)
(* updateRunnable without removeCallbacks; the run of the earlier          *)
(* runnable stays posted and keeps re-posting itself, and onDestroy        *)
(* removes the runs of the later runnable only.                            *)
(***************************************************************************)
IsTick(m) == m.type = "tick"
TickCount(q) == Len(SelectSeq(q, IsTick))

C26_SingleTimer ==
  /\ TickCount(mainQueue) <= 1
  /\ lastOp.op = "onDestroy" => TickCount(mainQueue) = 0

\* C26: the service of a session that was started twice has just been
\* destroyed after stop, and a run of the first updateRunnable is pending.
C26_TickPendingAfterDestroy ==
  /\ platform = "android"
  /\ lastOp.op = "onDestroy"
  /\ cur = 0 /\ ~isRunning
  /\ TickCount(mainQueue) = 1
  /\ \E i \in 1..Len(mainQueue) : mainQueue[i].type = "tick" /\ ~mainQueue[i].current

(***************************************************************************)
(* C27.  A grace-period stop scheduled by one tracking session never       *)
(* affects a later session: if tracking reaches its deadline and a new     *)
(* start (or stop followed by start) happens within the 5-second grace     *)
(* window, the delayed callback of the old session does not stop the new   *)
(* session's service or timer and does not reset isRunning /               *)
(* currentNotificationId of the new session.                               *)
(* A grace lambda that runs while the live service is before its own       *)
(* deadline was posted by an earlier session; its run changes neither the  *)
(* statics, nor the live instance and its callbacks, nor what is           *)
(* displayed, and schedules no destruction.                                *)
(* Refuted on android: the lambda is never cancelled and carries no        *)
(* session; on the same instance it runs stopAutoUpdate and                *)
(* stopForegroundService against the new session, and from a destroyed     *)
(* instance it still resets the statics isRunning and                      *)
(* currentNotificationId.                                                  *)
(***************************************************************************)
C27_OldGraceLeavesNewSession ==
  [][(/\ lastOp'.op = "grace"
      /\ cur # 0 /\ insts[cur].remainingMs > 0)
       => /\ UNCHANGED <<isRunning, currentNotificationId, amsStarted, shown, cur>>
          /\ insts'[cur] = insts[cur]
          /\ mainQueue' = Tail(mainQueue)]_vars

\* C27: stop, then start, inside the grace window: the lambda of the
\* destroyed service has run while the new service is in the foreground
\* with its timer armed, and the statics say that nothing runs.
C27_NewSessionReset ==
  /\ platform = "android"
  /\ lastOp.op = "grace"
  /\ cur # 0 /\ insts[cur].alive /\ insts[cur].foreground /\ insts[cur].handler
  /\ insts[cur].remainingMs > 0
  /\ Armed(cur, mainQueue)
  /\ shown # None
  /\ ~isRunning /\ currentNotificationId = NullId

(***************************************************************************)
(* C28.  A failed render inside one timer tick is swallowed and does not   *)
(* end tracking: the tick still reschedules the next tick after the        *)
(* interval, the notification stays registered, and a later tick renders   *)
(* normally.                                                               *)
(* A run of the current updateRunnable of the running service whose        *)
(* render fails leaves the statics, the display and the timer's fields as  *)
(* they were and posts what a successful run posts: itself after           *)
(* updateIntervalMs before the deadline, the grace lambda at the           *)
(* deadline; and every run of it whose render succeeds displays the        *)
(* countdown of the time left.                                             *)
(***************************************************************************)
C28_FailedRenderSwallowed ==
  [][/\ (/\ lastOp'.op = "tickFailed"
          /\ isRunning /\ cur # 0
          /\ Head(mainQueue).inst = cur /\ Head(mainQueue).current)
           => /\ UNCHANGED <<isRunning, currentNotificationId, amsStarted, shown, cur>>
              /\ insts'[cur].alive /\ insts'[cur].foreground
              /\ insts'[cur].handler /\ insts'[cur].updateRunnable
              /\ insts'[cur].remainingMs = insts[cur].remainingMs
              /\ IF insts[cur].remainingMs > 0
                 THEN mainQueue' = Post(Tail(mainQueue), Tick(cur, TRUE, updateIntervalMs))
                 ELSE mainQueue' = Post(Tail(mainQueue), Grace(cur, GraceMs))
     /\ (/\ lastOp'.op = "tick"
          /\ isRunning /\ cur # 0
          /\ Head(mainQueue).inst = cur /\ Head(mainQueue).current
          /\ insts[cur].notificationOptions # None)
           => /\ shown' # None
              /\ Get(shown').body = ExpectedBody(insts[cur].remainingMs)]_vars

\* C28: the render of the first tick of a session failed: the content of
\* the start is still displayed, the service runs, and the next tick is
\* posted for 6 s later.
C28_FailedTickRescheduled ==
  /\ platform = "android"
  /\ lastOp.op = "tickFailed" /\ lastOp.arg = ArrivalDelayMs(1)
  /\ isRunning /\ currentNotificationId = TimerId
  /\ cur # 0 /\ insts[cur].foreground /\ insts[cur].handler
  /\ shown # None /\ Get(shown).title = "T1" /\ Get(shown).body = "B1"
  /\ TickCount(mainQueue) = 1
  /\ \E i \in 1..Len(mainQueue) : mainQueue[i] = Tick(cur, TRUE, updateIntervalMs)

(***************************************************************************)
(* C29.  ServiceStatus is derived from registration: in every reachable    *)
(* state of the android service, isRunning is true if and only if a        *)
(* tracked notification is registered (currentNotificationId and the       *)
(* stored notification options are set); the three are set and cleared     *)
(* together by start, stop, the auto-arrival path and service              *)
(* destruction.                                                            *)
(* In every state isRunning, "currentNotificationId is set" and "a live    *)
(* service has notificationOptions stored" are all true or all false.      *)
(* Refuted: the three are separate variables, two of them statics of the   *)
(* class; the grace lambda of a destroyed service clears the statics       *)
(* under a new service that keeps its options and its notification.        *)
(***************************************************************************)
OptionsStored == cur # 0 /\ insts[cur].notificationOptions # None

C29_StatusDerivedFromRegistration ==
  platform = "android" =>
    /\ isRunning <=> (currentNotificationId # NullId /\ OptionsStored)
    /\ (currentNotificationId # NullId) <=> OptionsStored

\* C29: a service holds its options and displays its notification in the
\* foreground while isRunning is false and currentNotificationId is null.
C29_RegisteredButNotRunning ==
  /\ platform = "android"
  /\ OptionsStored /\ insts[cur].alive /\ insts[cur].foreground
  /\ shown # None /\ Get(shown).id = Get(insts[cur].notificationOptions).id
  /\ ~isRunning /\ currentNotificationId = NullId

(***************************************************************************)
(* C30.  An onServiceStatusChange{isRunning: true, notificationId: id}     *)
(* event is emitted only for a start that actually registered the          *)
(* notification: whenever such an event has been delivered, the            *)
(* notification id was posted and isActive(id) held at the time of         *)
(* emission.                                                               *)
(* In the state a step leaves after emitting the event for id, the         *)
(* notification of id is registered and isNotificationActive(id) is true.  *)
(* Refuted on android: the module emits the event as soon as it has sent   *)
(* the START intent, before the service exists or has posted anything;     *)
(* ios emits it in the completion of a successful add.                     *)
(***************************************************************************)
C30_RunningEventOnlyIfRegistered ==
  \A id \in Ids :
    StatusCount(lastOp.events, TRUE, id) >= 1
      => Registered(id) /\ isNotificationActive(id)

\* C30: the event isRunning: true has been emitted for an id while no
\* service exists and no notification is displayed.
C30_EventBeforeService ==
  /\ platform = "android"
  /\ \E id \in Ids : StatusCount(lastOp.events, TRUE, id) = 1
  /\ cur = 0 /\ shown = None
  /\ ~isRunning /\ currentNotificationId = NullId

(***************************************************************************)
(* C31.  An onNotificationUpdate{id} event is emitted only when the        *)
(* content of notification id was actually updated: an update call whose   *)
(* id does not match the active notification, and which the service        *)
(* therefore ignores, emits no onNotificationUpdate event.                 *)
(* In the state an update(id, content) leaves after emitting the event,    *)
(* on ios the pending request of id carries the new content, and on        *)
(* android id is the service's currentNotificationId or a START of id is   *)
(* still ahead of the update in the queue: otherwise the service returns   *)
(* from updateNotificationContent at the id check.                         *)
(* Refuted on android: the module emits the event as soon as it has sent   *)
(* the UPDATE_CONTENT intent, whatever the service will do with it.        *)
(***************************************************************************)
StartPending(q, id) ==
  \E i \in 1..Len(q) : IsStart(q[i]) /\ Get(q[i].options).id = id

C31_UpdateEventOnlyIfUpdated ==
  \A id \in Ids :
    (/\ lastOp.op = "update"
     /\ \E i \in 1..Len(lastOp.events) : lastOp.events[i] = UpdateEvent(id))
      => IF platform = "ios"
         THEN pendingReqs[id] # None /\ Get(pendingReqs[id]).data = lastOp.data
         ELSE currentNotificationId = id \/ StartPending(mainQueue, id)

\* C31: update("b", content) has emitted onNotificationUpdate{b} while the
\* service tracks "a" and no start of "b" is on its way.
C31_EventForIgnoredUpdate ==
  /\ platform = "android"
  /\ lastOp.op = "update" /\ lastOp.id = "b"
  /\ lastOp.events = <<UpdateEvent("b")>>
  /\ isRunning /\ currentNotificationId = "a"
  /\ ~StartPending(mainQueue, "b")

(***************************************************************************)
(* C32.  Deadline computation: for every arrivalMinutes value accepted by  *)
(* start, the armed arrival deadline equals the start time plus exactly    *)
(* arrivalMinutes x 60 seconds, including non-integer values (1.5 minutes  *)
(* = 90 s) and values so large that arrivalMinutes x 60 exceeds the        *)
(* 32-bit integer range.                                                   *)
(* For arrivalMinutes given as h half minutes, the seconds from the start  *)
(* to arrivalTimeMillis are 30 x h (stated by division, so that the        *)
(* expected value needs no more than 32 bits).                             *)
(* Refuted: toInt() drops the fraction, and arrivalMinutes * 60 is an Int  *)
(* product that wraps around before it is widened by 1000L.                *)
(***************************************************************************)
C32_DeadlineExact ==
  lastOp.op = "arrivalTime"
    => /\ Get(lastOp.response) % 30 = 0
       /\ Get(lastOp.response) \div 30 = lastOp.arg

\* C32: for arrivalMinutes = 1.5 the deadline is 60 s after the start.
C32_NinetySecondsBecomeSixty ==
  /\ lastOp.op = "arrivalTime"
  /\ lastOp.arg = 3
  /\ lastOp.response = Some(60)

(***************************************************************************)
(* C33.  If posting the notification fails during start on Android         *)
(* (startForeground throws), no tracking session is left half-started: no  *)
(* auto-update timer is armed and no later tick renders a notification     *)
(* for that failed start.                                                  *)
(* In the state onStartCommand leaves after a START whose                  *)
(* startForegroundNotification failed, the service has no updateRunnable   *)
(* and no run of one is posted; and whenever a run of updateRunnable has   *)
(* just ended while the live service is not running and not in the         *)
(* foreground, nothing is displayed.                                       *)
(* Refuted: onStartCommand calls startAutoUpdate() after                   *)
(* startForegroundNotification whether it failed or not, and the options   *)
(* were stored before the failure, so the first run renders them.          *)
(***************************************************************************)
C33_FailedStartLeavesNoTimer ==
  /\ lastOp.op = "onStartFailed"
       => ~insts[cur].updateRunnable /\ ~Armed(cur, mainQueue)
  /\ (lastOp.op = "tick" /\ cur # 0 /\ ~insts[cur].foreground /\ ~isRunning)
       => shown = None

\* C33: after a failed start, a run of updateRunnable has displayed the
\* arrival text for the id of that start; the service never was in the
\* foreground and is not running.
C33_TickRenderedAfterFailedStart ==
  /\ platform = "android"
  /\ lastOp.op = "tick"
  /\ ~isRunning /\ currentNotificationId = ActionId
  /\ cur # 0 /\ ~insts[cur].foreground
  /\ shown # None /\ Get(shown).id = ActionId /\ Get(shown).title = TimerTitle

(***************************************************************************)
(* C34.  update(id, content) and updateActions(id, actions) never create   *)
(* the background service: when no tracking is active (before any start,   *)
(* or after stop), calling either of them leaves the service not alive.    *)
(* When the intent of an update or an updateActions is delivered while no  *)
(* instance of the service is alive, none is alive afterwards.             *)
(* Refuted on android: both calls send their intent with startService /    *)
(* startForegroundService, which creates the service when there is none;   *)
(* onStartCommand returns START_STICKY and nothing stops the service.      *)
(***************************************************************************)
C34_UpdateNeverCreatesService ==
  [][(lastOp'.op \in {"onUpdateContent", "onUpdateActions"} /\ cur = 0)
        => cur' = 0]_vars

\* C34: an update delivered with no service alive has left a live service
\* that tracks nothing, shows nothing and has nothing left to run.
C34_ServiceAliveAfterUpdate ==
  /\ platform = "android"
  /\ lastOp.op = "onUpdateContent"
  /\ cur # 0 /\ insts[cur].alive
  /\ insts[cur].notificationOptions = None
  /\ ~isRunning /\ currentNotificationId = NullId
  /\ shown = None
  /\ mainQueue = <<>>

(***************************************************************************)
(* C35.  An action list installed by updateActions(id, actions) persists:  *)
(* every later re-render of the same notification (a timer tick or an      *)
(* explicit content update) shows the updated actions, not the actions     *)
(* supplied to start.                                                      *)
(* A run of updateRunnable or the delivery of an UPDATE_CONTENT that       *)
(* renders the displayed notification again shows it with the actions it   *)
(* was displayed with before.                                              *)
(* Refuted on android: updateNotificationActions renders the updated       *)
(* options and does not store them in notificationOptions, from which      *)
(* every later render is built.                                            *)
(***************************************************************************)
C35_UpdatedActionsPersist ==
  [][(/\ lastOp'.op \in {"tick", "onUpdateContent"}
      /\ shown # None /\ shown' # None
      /\ Get(shown').id = Get(shown).id)
        => Get(shown').actions = Get(shown).actions]_vars

\* C35: updateActions to one action has just been rendered for the running
\* notification; the options the service stores still hold the two actions
\* of start, and the next run of updateRunnable is posted.
C35_UpdatedActionsNotStored ==
  /\ platform = "android"
  /\ lastOp.op = "onUpdateActions"
  /\ isRunning /\ currentNotificationId = TimerId
  /\ shown # None /\ Get(shown).actions = BuildActions(ActionList(1))
  /\ Get(insts[cur].notificationOptions).actions = ActionList(2)
  /\ Armed(cur, mainQueue)

(***************************************************************************)
(* C36.  An explicit update(id, content) on the active notification        *)
(* changes only its content: the action buttons installed by start /       *)
(* updateActions are still attached to the notification after the update,  *)
(* at any point of its lifetime.                                           *)
(* On ios, an updateNotificationContent of a registered id leaves a        *)
(* request with the category the notification had (that of its pending     *)
(* request, or else of its delivered notification).  On android, the       *)
(* delivery of an UPDATE_CONTENT for currentNotificationId displays the    *)
(* notification with the actions displayed before.                         *)
(* Refuted on ios: the category is copied from a pending request only;     *)
(* 0.1 s after start the request has been delivered and the update's       *)
(* notification carries no category.  Refuted on android after an          *)
(* updateActions, whose actions are not stored.                            *)
(***************************************************************************)
C36_UpdateKeepsActions ==
  [][/\ (platform = "ios" /\ lastOp'.op = "update" /\ IosRegistered(lastOp'.id))
          => Get(pendingReqs'[lastOp'.id]).category =
               (IF pendingReqs[lastOp'.id] # None
                THEN Get(pendingReqs[lastOp'.id]).category
                ELSE Get(delivered[lastOp'.id]).category)
     /\ (/\ lastOp'.op = "onUpdateContent"
         /\ currentNotificationId = Head(mainQueue).id
         /\ shown # None)
          => Get(shown').actions = Get(shown).actions]_vars

\* C36: update(id, content) after the notification of id was delivered with
\* its category: the request that replaces it has none.
C36_UpdateAfterDeliveryDropsCategory ==
  /\ platform = "ios"
  /\ lastOp.op = "update" /\ lastOp.resolved
  /\ delivered[lastOp.id] # None
  /\ Get(delivered[lastOp.id]).category = CategoryId(lastOp.id)
  /\ pendingReqs[lastOp.id] # None
  /\ Get(pendingReqs[lastOp.id]).category = NoCategory

(***************************************************************************)
(* C37.  The data payload attached to the notification's content is kept   *)
(* for the notification's lifetime: after any number of timer ticks,       *)
(* pressing an action button still produces an onNotificationAction event  *)
(* carrying the data most recently supplied by start or update.            *)
(* In sessions whose every start supplies the same data and in which no    *)
(* update is made, every press of a button of the displayed notification   *)
(* forwards an onNotificationAction with that data.                        *)
(* Refuted on android: updateNotificationWithTime replaces the stored      *)
(* content by a map of title and body alone, so from the first tick on     *)
(* the buttons' intents carry no DATA extra.                               *)
(***************************************************************************)
C37_PressCarriesSuppliedData ==
  lastOp.op = "press"
    => \E options \in TeardownStartInputs :
         /\ lastOp.data = options.content.data
         /\ lastOp.broadcasts =
              <<ActionEvent(lastOp.actionId, options.id, options.content.data)>>

\* C37: a button of the running notification was pressed after a tick; the
\* event carries no data.
C37_PressAfterTickWithoutData ==
  /\ platform = "android"
  /\ lastOp.op = "press"
  /\ isRunning /\ currentNotificationId = TimerId
  /\ shown # None /\ Get(shown).title = TimerTitle
  /\ lastOp.broadcasts = <<ActionEvent(lastOp.actionId, TimerId, NoData)>>

(***************************************************************************)
(* C38.  Malformed action entries (missing id or title) are skipped        *)
(* without error, and the rendered actions are exactly the well-formed     *)
(* entries among the first three supplied, in order: a well-formed entry   *)
(* at position 4 or later is never rendered, even when an earlier entry    *)
(* was skipped.                                                            *)
(* android: the notification displayed by a START has as its buttons the   *)
(* entries with id and title among the first three of the options'         *)
(* actions, in their order.  ios: a start resolves, and the category it    *)
(* registers and gives to its request has those entries as actions.        *)
(***************************************************************************)
\* The entries with an id and a title among the first three, in order: the
\* k-th is the one with k - 1 such entries before it.
WellFormedOfFirstThree(actions) ==
  LET kept == {i \in 1..Len(actions) :
                 i <= 3 /\ actions[i].id # NullId /\ actions[i].title # NullId}
      Nth(k) == CHOOSE i \in kept : Cardinality({j \in kept : j < i}) = k - 1
  IN [k \in 1..Cardinality(kept) |->
        [id |-> actions[Nth(k)].id, title |-> actions[Nth(k)].title]]

====
